---- MODULE Spec2Model ----
(***************************************************************************)
(* A model of evasdk.eva_locker.EvaWithLocker: the stack of renew periods, *)
(* the condition variable and the background renewal thread, run against a *)
(* mock Eva that counts the lock(), lock_renew() and unlock() calls.       *)
(*                                                                         *)
(* Two threads take steps: the calling thread (mpc) running `with` scopes  *)
(* on the locker, and the renewal thread (tpc) running __renewal_timer.    *)
(* threading.Condition is modelled by the owner of its lock (mutex) and by *)
(* the position of the renewal thread inside wait(): "waiting" is the only *)
(* position in which the thread is in the condition's waiter list.         *)
(* Time passes in ticks; a timed wait expires when it has lasted as many   *)
(* ticks as its timeout.                                                   *)
(*                                                                         *)
(* The second part models the session handling of                          *)
(* evasdk.eva_http_client.EvaHTTPClient: api_call_with_auth with its       *)
(* create-and-retry on 401 and its opportunistic renewal, against a server *)
(* that answers every request with any status.                             *)
(*                                                                         *)
(* The third part models automata.eva_locker.EvaWithLocker, the locker     *)
(* with one flag instead of a stack.                                       *)
(*                                                                         *)
(* Smaller parts follow: eva_error's choice of exception class, the        *)
(* teach-mode control calls of Eva made inside `with eva`, the headers of  *)
(* __api_request across clients, Websocket.__enter__ and lock_wait_for.    *)
(* The parts share no state: each specification leaves the variables of    *)
(* the other parts alone.                                                  *)
(***************************************************************************)
EXTENDS Integers, Sequences, FiniteSets, TLC

\* ------------------------------------------------------------------ bounds
MaxPeriod == 2      \* renew periods are 1..MaxPeriod clock ticks
MaxTimeouts == 2    \* timed waits that expire per run
MaxEnters == 3      \* __enter__ calls per run
MaxFail == 1        \* lock_renew calls the mock lets fail per run
FallbackPeriod == 1 \* the fallback_renew_period the locker is built with
MaxCalls == 3       \* calls of the public methods of the HTTP client per run
ShortRenewPeriod == 1   \* a renew_period, in seconds, shorter than the default
MaxStatus == 620        \* HTTP status codes are 100..MaxStatus
MaxTeach == 2           \* teach-mode control calls of Eva per run
MaxClients == 2         \* EvaHTTPClient objects in one process
MaxTokens == 2          \* session tokens issued per run
WsTimeout == 2          \* the timeout a Websocket is built with, in ticks
MaxClock == 5           \* ticks a run of Websocket.__enter__ is followed for
MaxWait == 3            \* timeouts given to lock_wait_for are 0..MaxWait ticks
MaxNow == 6             \* ticks a run of lock_wait_for is followed for

\* ------------------------------------------------------------------ program constants
DefaultRenewPeriod == 1200  \* renew_period=60 * 20 of EvaHTTPClient.__init__
HardExpiry == 1800          \* 30 * 60, the session lifetime api_call_with_auth tests
IntervalSec == 2            \* interval_sec=2 of lock_wait_for, in ticks

Periods == 1..MaxPeriod
None == 0           \* set_renew_period's default argument

VARIABLES
    fallback_renew_period,  \* self.__fallback_renew_period
    renew_period,           \* self.__renew_period
    period_stack,           \* self.__period_stack
    mutex,                  \* owner of self.__cond's lock: "free", "main", "thread"
    tpc,                    \* position of self.__thread
    waitPeriod,             \* timeout of the wait the thread is in
    waited,                 \* ticks the wait in progress has lasted
    mpc,                    \* position of the calling thread
    open,                   \* `with` scopes entered and not yet exited
    exc,                    \* exception propagating in the calling thread: "none",
                            \* "body", or an EvaLockError named after its origin
    calls,                  \* the mock's call counts
    started,                \* renewal threads started so far
    nEnterOK,               \* __enter__ calls that returned
    nEnterTried,            \* __enter__ calls made
    nExitNested,            \* __exit__ calls that left the stack non-empty
    timeouts,               \* waits that expired
    nBgRenew,               \* lock_renew calls made by the renewal thread
    failures,               \* lock_renew calls that raised
    clean,                  \* no lock_renew call, scope operation or body raised so far
    maxDepth                \* largest length period_stack has had

vars == <<fallback_renew_period, renew_period, period_stack, mutex, tpc,
          waitPeriod, waited, mpc, open, exc, calls, started,
          nEnterOK, nEnterTried, nExitNested, timeouts, nBgRenew, failures,
          clean, maxDepth>>

hist == <<started, nEnterOK, nEnterTried, nExitNested, timeouts, nBgRenew, maxDepth>>

VARIABLES
    built,                  \* EvaHTTPClient.__init__ returned an object
    session_token,          \* self.session_token: None, or the n-th token issued
    http_renew_period,      \* self.renew_period of the HTTP client
    elapsed,                \* time.time() - self.__last_renew, in seconds
    cpc,                    \* position of the thread inside the client
    frames,                 \* the client methods being executed, outermost first
    op,                     \* the public method called last: "api", "create",
                            \* "renew", "invalidate", or "none"
    prev,                   \* the public method called before it, and how it ended
    r,                      \* status of the first response of the call in progress
    r2,                     \* status of the retry's response, 0 if none
    rr,                     \* status of the auth/renew response, 0 if none
    vs,                     \* status of the versions response, 0 if none
    cs,                     \* status of the POST auth response, 0 if none
    ds,                     \* status of the DELETE auth response, 0 if none
    result,                 \* how the last call of a public method ended
    retryToken,             \* session_token the retry was sent with
    seenElapsed,            \* elapsed when the call last had a response in hand
    gone,                   \* the token auth_invalidate_session cleared last
    nCalls,                 \* calls of public methods made
    nPrimary,               \* requests of the caller sent by the call: first and retry
    nCreate,                \* auth_create_session calls made by the call
    nRenew,                 \* auth/renew requests sent by the call
    nRequests,              \* HTTP requests sent by the call
    tokens                  \* session tokens the server has issued

cvars == <<built, session_token, http_renew_period, elapsed, cpc, frames, op, prev,
           r, r2, rr, vs, cs, ds, result, retryToken, seenElapsed, gone, nCalls,
           nPrimary, nCreate, nRenew, nRequests, tokens>>

\* What a call in progress has seen and done so far.
callhist == <<r, r2, rr, vs, cs, ds, retryToken, seenElapsed, nPrimary, nCreate,
              nRenew>>

VARIABLES
    locked,                 \* self.__locked of automata.EvaWithLocker
    a_period,               \* its self.__renew_period
    a_mutex,                \* owner of its self.__cond's lock
    a_tpc,                  \* position of its self.__thread
    a_waited,               \* ticks the wait in progress has lasted
    a_mpc,                  \* position of the calling thread
    a_open,                 \* `with` scopes entered and not yet exited
    a_exc,                  \* exception propagating in the calling thread
    a_calls,                \* the mock's call counts
    a_started,              \* threads started so far
    a_nEnter,               \* __enter__ calls made
    a_timeouts,             \* waits that expired
    a_failures              \* lock_renew calls that raised

avars == <<locked, a_period, a_mutex, a_tpc, a_waited, a_mpc, a_open, a_exc,
           a_calls, a_started, a_nEnter, a_timeouts, a_failures>>

VARIABLES
    e_called,               \* eva_error has been called
    e_status,               \* status_code of the response it was given, None if none
    e_body,                 \* what r.json() of that response does
    e_raised,               \* the class of the exception it raised, "none" if none
    e_detail                \* the message of the exception quotes the body

rvars == <<e_called, e_status, e_body, e_raised, e_detail>>

VARIABLES
    teach,                  \* position of the caller inside a teach-mode control
                            \* call of Eva: "no", "set", "body", "called", "exit"
    nTeach                  \* teach-mode control calls made

evars == <<teach, nTeach>>

VARIABLES
    h_default,              \* the dict that is the default of the headers parameter
                            \* of __api_request: its keys and its Authorization
    h_token,                \* session_token of each EvaHTTPClient
    h_issued,               \* session tokens issued so far
    h_sent                  \* the last request handed to requests.request

hvars == <<h_default, h_token, h_issued, h_sent>>

VARIABLES
    s_mpc,                  \* position of the thread that enters the Websocket
    s_tpc,                  \* position of the websocket thread, self.__thread
    s_ws,                   \* self.__ws is set
    s_clock,                \* ticks since __enter__ was called
    s_waited,               \* ticks the wait of __enter__ has lasted
    s_openAt                \* s_clock when on_open notified, Absent before

svars == <<s_mpc, s_tpc, s_ws, s_clock, s_waited, s_openAt>>

VARIABLES
    w_pc,                   \* position inside lock_wait_for
    w_owner,                \* who holds the robot's lock: "none", "other", "you"
    w_timeout,              \* the timeout argument, Absent for None
    w_deadline,             \* timeoutT, Absent if not set
    w_now,                  \* time.time(), in ticks since the call
    w_nLock,                \* lock_lock calls made
    w_slept,                \* time.sleep(interval_sec) calls made
    w_last,                 \* how the last lock_status or lock_lock ended
    w_result                \* how lock_wait_for ended: "none", "return", or
                            \* the class of the exception

wvars ==
    <<w_pc, w_owner, w_timeout, w_deadline, w_now, w_nLock, w_slept, w_last,
      w_result>>

\* The variables of the parts that follow the two lockers and the client.
xvars == <<rvars, evars, hvars, svars, wvars>>

allvars == <<vars, cvars, avars, xvars>>

\* ------------------------------------------------------------------ helpers
Top(s) == s[Len(s)]
Pop(s) == SubSeq(s, 1, Len(s) - 1)
Max(a, b) == IF a >= b THEN a ELSE b

\* The outcomes lock_renew() of the Eva object can have: TRUE returns, FALSE raises.
RenewOutcomes == IF failures < MaxFail THEN {TRUE, FALSE} ELSE {TRUE}

\* The mock after one more call of method m.
Called(m) == [calls EXCEPT ![m] = @ + 1]

\* As Notified, but waking nobody.
NotifiedNobody(pc) == pc

\* threading.Condition.notify(): wakes the thread if it is in the waiter list.
Notified(pc) == IF pc = "waiting" THEN "notified" ELSE pc

\* ------------------------------------------------------------------ initial state
\* EvaWithLocker.__init__.
LockerStart ==
    /\ fallback_renew_period = FallbackPeriod
    /\ renew_period = fallback_renew_period
    /\ period_stack = <<>>
    /\ mutex = "free"
    /\ tpc = "none"
    /\ waitPeriod = 0
    /\ waited = 0
    /\ mpc = "idle"
    /\ open = 0
    /\ exc = "none"
    /\ calls = [lock |-> 0, lock_renew |-> 0, unlock |-> 0]
    /\ started = 0
    /\ nEnterOK = 0
    /\ nEnterTried = 0
    /\ nExitNested = 0
    /\ timeouts = 0
    /\ nBgRenew = 0
    /\ failures = 0
    /\ clean = TRUE
    /\ maxDepth = 0

NoResult == [kind |-> "none", status |-> 0, error |-> "none", token |-> None]

\* As ValidRenewPeriod, with both comparisons inclusive.
ValidRenewPeriodInclusive(p) == 0 <= p /\ p <= HardExpiry

\* Line 47: the renew_period values the constructor accepts.
ValidRenewPeriod(p) == 0 < p /\ p < HardExpiry

\* EvaHTTPClient(host_ip, api_token, renew_period=period): the object exists if
\* the constructor does not raise ValueError.
ClientStart(period) ==
    /\ built = ValidRenewPeriod(period)
    /\ session_token = None
    /\ http_renew_period = period
    /\ elapsed = 0
    /\ cpc = "idle"
    /\ frames = <<>>
    /\ op = "none"
    /\ prev = [op |-> "none", kind |-> "none"]
    /\ r = 0 /\ r2 = 0 /\ rr = 0 /\ vs = 0 /\ cs = 0 /\ ds = 0
    /\ result = NoResult
    /\ retryToken = None
    /\ seenElapsed = 0
    /\ gone = None
    /\ nCalls = 0 /\ nPrimary = 0 /\ nCreate = 0 /\ nRenew = 0 /\ nRequests = 0
    /\ tokens = 0

\* automata.EvaWithLocker.__init__ with the given renew_period.
AutomataStart(period) ==
    /\ locked = FALSE
    /\ a_period = period
    /\ a_mutex = "free"
    /\ a_tpc = "none"
    /\ a_waited = 0
    /\ a_mpc = "idle"
    /\ a_open = 0
    /\ a_exc = "none"
    /\ a_calls = [lock |-> 0, lock_renew |-> 0, unlock |-> 0]
    /\ a_started = 0
    /\ a_nEnter = 0
    /\ a_timeouts = 0
    /\ a_failures = 0

\* Before any call of eva_error.
ErrorStart ==
    /\ e_called = FALSE
    /\ e_status = None
    /\ e_body = "none"
    /\ e_raised = "none"
    /\ e_detail = FALSE

\* No teach-mode control call made yet.
TeachStart == teach = "no" /\ nTeach = 0

\* A header that is not in a dict.
Absent == -1

\* The module is imported and the clients are constructed: the default dict of
\* __api_request is empty, no client has a session, nothing was sent.
HeadersStart ==
    /\ h_default = [ua |-> FALSE, authorization |-> Absent]
    /\ h_token = [c \in 1..MaxClients |-> None]
    /\ h_issued = 0
    /\ h_sent = [client |-> 0, add_auth |-> FALSE, authorization |-> Absent]

\* Websocket.__init__, lines 19-27.
WebsocketStart ==
    /\ s_mpc = "init"
    /\ s_tpc = "none"
    /\ s_ws = FALSE
    /\ s_clock = 0
    /\ s_waited = 0
    /\ s_openAt = Absent

\* Before lock_wait_for is called, the robot's lock held by whoever holds it.
WaitStart(owner) ==
    /\ w_pc = "idle"
    /\ w_owner = owner
    /\ w_timeout = Absent
    /\ w_deadline = Absent
    /\ w_now = 0
    /\ w_nLock = 0
    /\ w_slept = 0
    /\ w_last = "none"
    /\ w_result = "none"

\* The initial state of the parts that follow the two lockers and the client.
OtherStart ==
    /\ ErrorStart /\ TeachStart /\ HeadersStart /\ WebsocketStart
    /\ WaitStart("none")

Init ==
    /\ LockerStart
    /\ ClientStart(DefaultRenewPeriod)
    /\ AutomataStart(FallbackPeriod)
    /\ OtherStart

\* ------------------------------------------------------------------ calling thread
\* As SetRenewPeriod, but waking the renewal thread as a push or pop does.
SetRenewPeriodWakes(p) ==
    /\ mpc = "idle" /\ exc = "none"
    /\ renew_period' = IF p = None THEN fallback_renew_period ELSE p
    /\ renew_period' # renew_period
    /\ tpc' = Notified(tpc)
    /\ UNCHANGED <<fallback_renew_period, period_stack, mutex, waitPeriod,
                   waited, open, exc, calls, failures, clean, mpc>>
    /\ UNCHANGED hist
    /\ UNCHANGED <<cvars, avars, xvars>>
\* set_renew_period(renew_period=None), called between scope operations.
SetRenewPeriod(p) ==
    /\ mpc = "idle" /\ exc = "none"
    /\ renew_period' = IF p = None THEN fallback_renew_period ELSE p
    /\ renew_period' # renew_period
    /\ UNCHANGED <<fallback_renew_period, period_stack, mutex, tpc, waitPeriod,
                   waited, open, exc, calls, failures, clean, mpc>>
    /\ UNCHANGED hist
    /\ UNCHANGED <<cvars, avars, xvars>>
\* __enter__ with an empty stack (lines 40-47): confirm-renew, then create the
\* condition and the thread, push and start.
\* As EnterOuterEffect, but pushing before the confirm-renew.
EnterOuterEffectPushFirst(ok) ==
    IF ok
    THEN /\ period_stack' = <<renew_period>>
         /\ tpc' = "start"
         /\ started' = started + 1
         /\ open' = open + 1
         /\ nEnterOK' = nEnterOK + 1
         /\ maxDepth' = Max(maxDepth, 1)
         /\ UNCHANGED <<exc, failures, clean>>
    ELSE /\ period_stack' = <<renew_period>>
         /\ exc' = "enter_outer"
         /\ failures' = failures + 1
         /\ clean' = FALSE
         /\ UNCHANGED <<tpc, started, open, nEnterOK, maxDepth>>

EnterOuterEffect(ok) ==
    IF ok
    THEN /\ period_stack' = <<renew_period>>
         /\ tpc' = "start"
         /\ started' = started + 1
         /\ open' = open + 1
         /\ nEnterOK' = nEnterOK + 1
         /\ maxDepth' = Max(maxDepth, 1)
         /\ UNCHANGED <<exc, failures, clean>>
    ELSE /\ exc' = "enter_outer"
         /\ failures' = failures + 1
         /\ clean' = FALSE
         /\ UNCHANGED <<period_stack, tpc, started, open, nEnterOK, maxDepth>>

EnterOuter ==
    /\ mpc = "idle" /\ exc = "none"
    /\ Len(period_stack) = 0
    /\ nEnterTried < MaxEnters
    /\ nEnterTried' = nEnterTried + 1
    /\ calls' = Called("lock_renew")
    /\ \E ok \in RenewOutcomes : EnterOuterEffect(ok)
    /\ mutex' = "free"
    /\ UNCHANGED <<fallback_renew_period, renew_period, waitPeriod, waited,
                   mpc, nExitNested, timeouts, nBgRenew>>
    /\ UNCHANGED <<cvars, avars, xvars>>


\* As EnterAcquire, but entering the block without taking the lock.
EnterAcquireUnlocked ==
    /\ mpc = "idle" /\ exc = "none"
    /\ Len(period_stack) > 0
    /\ nEnterTried < MaxEnters
    /\ mpc' = "enter_cs"
    /\ nEnterTried' = nEnterTried + 1
    /\ UNCHANGED <<fallback_renew_period, renew_period, period_stack, mutex, tpc,
                   waitPeriod, waited, open, exc, calls, started,
                   nEnterOK, nExitNested, timeouts, nBgRenew, failures, clean,
                   maxDepth>>
    /\ UNCHANGED <<cvars, avars, xvars>>

\* __enter__ with a non-empty stack, line 49: `with self.__cond`.
EnterAcquire ==
    /\ mpc = "idle" /\ exc = "none"
    /\ Len(period_stack) > 0
    /\ nEnterTried < MaxEnters
    /\ mutex = "free"
    /\ mutex' = "main"
    /\ mpc' = "enter_cs"
    /\ nEnterTried' = nEnterTried + 1
    /\ UNCHANGED <<fallback_renew_period, renew_period, period_stack, tpc,
                   waitPeriod, waited, open, exc, calls, started,
                   nEnterOK, nExitNested, timeouts, nBgRenew, failures, clean,
                   maxDepth>>
    /\ UNCHANGED <<cvars, avars, xvars>>
\* As Redundant, but accepting every period.
RedundantNever(period, stack) == FALSE

\* As Redundant, but comparing with every entry of the stack.
RedundantAnywhere(period, stack) == \E i \in 1..Len(stack) : stack[i] = period

\* Line 50: the redundancy check of a nested enter.
Redundant(period, stack) == period = Top(stack)

\* As EnterNestedEffect, but pushing before the confirm-renew.
EnterNestedEffectPushFirst(ok) ==
    IF ok
    THEN /\ period_stack' = Append(period_stack, renew_period)
         /\ tpc' = Notified(tpc)
         /\ open' = open + 1
         /\ nEnterOK' = nEnterOK + 1
         /\ maxDepth' = Max(maxDepth, Len(period_stack) + 1)
         /\ UNCHANGED <<exc, failures, clean>>
    ELSE /\ period_stack' = Append(period_stack, renew_period)
         /\ exc' = "enter_nested"
         /\ failures' = failures + 1
         /\ clean' = FALSE
         /\ UNCHANGED <<tpc, open, nEnterOK, maxDepth>>

\* Lines 51-54: confirm-renew, then push and __reset_timer.
EnterNestedEffect(ok) ==
    IF ok
    THEN /\ period_stack' = Append(period_stack, renew_period)
         /\ tpc' = Notified(tpc)
         /\ open' = open + 1
         /\ nEnterOK' = nEnterOK + 1
         /\ maxDepth' = Max(maxDepth, Len(period_stack) + 1)
         /\ UNCHANGED <<exc, failures, clean>>
    ELSE /\ exc' = "enter_nested"
         /\ failures' = failures + 1
         /\ clean' = FALSE
         /\ UNCHANGED <<period_stack, tpc, open, nEnterOK, maxDepth>>

\* Lines 50-57, leaving the `with self.__cond` block by return or by raise.
EnterNested ==
    /\ mpc = "enter_cs"
    /\ IF Redundant(renew_period, period_stack)
       THEN /\ exc' = "enter_same"
            /\ clean' = FALSE
            /\ UNCHANGED <<period_stack, tpc, open, nEnterOK, maxDepth,
                           calls, failures>>
       ELSE /\ calls' = Called("lock_renew")
            /\ \E ok \in RenewOutcomes : EnterNestedEffect(ok)
    /\ mutex' = "free"
    /\ mpc' = "idle"
    /\ UNCHANGED <<fallback_renew_period, renew_period, waitPeriod, waited,
                   started, nEnterTried, nExitNested, timeouts, nBgRenew>>
    /\ UNCHANGED <<cvars, avars, xvars>>
\* The body of the innermost open scope raises.
BodyRaise ==
    /\ mpc = "idle" /\ exc = "none"
    /\ open > 0
    /\ exc' = "body"
    /\ clean' = FALSE
    /\ UNCHANGED <<fallback_renew_period, renew_period, period_stack, mutex, tpc,
                   waitPeriod, waited, mpc, open, calls, failures>>
    /\ UNCHANGED hist
    /\ UNCHANGED <<cvars, avars, xvars>>
\* An except clause of the caller, around the scopes or inside an enclosing one,
\* handles the propagating exception.
Catch ==
    /\ mpc = "idle" /\ exc # "none"
    /\ exc' = "none"
    /\ UNCHANGED <<fallback_renew_period, renew_period, period_stack, mutex, tpc,
                   waitPeriod, waited, mpc, open, calls, failures, clean>>
    /\ UNCHANGED hist
    /\ UNCHANGED <<cvars, avars, xvars>>
\* __exit__, line 63: `with self.__cond`. The `with` statement of the caller runs
\* it when the body ends and when an exception leaves the body.
ExitAcquire ==
    /\ mpc = "idle"
    /\ open > 0
    /\ mutex = "free"
    /\ mutex' = "main"
    /\ mpc' = "exit_cs"
    /\ UNCHANGED <<fallback_renew_period, renew_period, period_stack, tpc,
                   waitPeriod, waited, open, exc, calls, failures, clean>>
    /\ UNCHANGED hist
    /\ UNCHANGED <<cvars, avars, xvars>>
\* Lines 68-69: the confirm-renew of an exit that leaves scopes open.
\* As ExitRenews, with the test of line 68 inverted.
ExitRenewsOnLast(size) == size = 0

ExitRenews(size) == size # 0

ExitNestedEffect(ok) ==
    IF ok
    THEN UNCHANGED <<exc, failures, clean>>
    ELSE /\ exc' = "exit_renew"
         /\ failures' = failures + 1
         /\ clean' = FALSE

\* Lines 64-69: pop, __reset_timer, and the confirm-renew if scopes remain;
\* then line 71 decides whether to join.
ExitBody ==
    /\ mpc = "exit_cs"
    /\ period_stack' = Pop(period_stack)
    /\ tpc' = Notified(tpc)
    /\ mutex' = "free"
    /\ IF ExitRenews(Len(period_stack'))
       THEN /\ calls' = Called("lock_renew")
            /\ \E ok \in RenewOutcomes : ExitNestedEffect(ok)
       ELSE UNCHANGED <<calls, exc, failures, clean>>
    /\ IF Len(period_stack') # 0
       THEN /\ mpc' = "idle"
            /\ open' = open - 1
            /\ nExitNested' = nExitNested + 1
       ELSE /\ mpc' = "exit_join"
            /\ UNCHANGED <<open, nExitNested>>
    /\ UNCHANGED <<fallback_renew_period, renew_period, waitPeriod, waited,
                   started, nEnterOK, nEnterTried, timeouts, nBgRenew, maxDepth>>
    /\ UNCHANGED <<cvars, avars, xvars>>
\* Lines 72-73: join the thread, then set_renew_period().
ExitJoin ==
    /\ mpc = "exit_join"
    /\ tpc \in {"done", "crashed"}
    /\ renew_period' = fallback_renew_period
    /\ mpc' = "idle"
    /\ open' = open - 1
    /\ UNCHANGED <<fallback_renew_period, period_stack, mutex, tpc, waitPeriod,
                   waited, exc, calls, failures, clean>>
    /\ UNCHANGED hist
    /\ UNCHANGED <<cvars, avars, xvars>>
\* ------------------------------------------------------------------ renewal thread
\* __renewal_timer, line 77: `with self.__cond`.
TimerAcquire ==
    /\ tpc = "start"
    /\ mutex = "free"
    /\ mutex' = "thread"
    /\ tpc' = "locked"
    /\ UNCHANGED <<fallback_renew_period, renew_period, period_stack, waitPeriod,
                   waited, mpc, open, exc, calls, failures, clean>>
    /\ UNCHANGED hist
    /\ UNCHANGED <<cvars, avars, xvars>>
\* As WaitTimeout, with the period of the outermost scope.
WaitTimeoutOuter(stack) == stack[1]

\* The timeout line 79 passes to wait().
WaitTimeout(stack) == Top(stack)

\* Line 79: self.__period_stack[-1] raises IndexError on an empty list, which ends
\* the thread and leaves the `with` block; otherwise wait() puts the thread in the
\* waiter list and releases the lock.
TimerWait ==
    /\ tpc = "locked"
    /\ mutex' = "free"
    /\ IF Len(period_stack) = 0
       THEN /\ tpc' = "crashed"
            /\ UNCHANGED <<waitPeriod, waited>>
       ELSE /\ tpc' = "waiting"
            /\ waitPeriod' = WaitTimeout(period_stack)
            /\ waited' = 0
    /\ UNCHANGED <<fallback_renew_period, renew_period, period_stack, mpc, open,
                   exc, calls, failures, clean>>
    /\ UNCHANGED hist
    /\ UNCHANGED <<cvars, avars, xvars>>
\* wait(): the timeout elapses before any notify.
TimerExpire ==
    /\ tpc = "waiting"
    /\ waited >= waitPeriod
    /\ timeouts < MaxTimeouts
    /\ tpc' = "timedout"
    /\ timeouts' = timeouts + 1
    /\ UNCHANGED <<fallback_renew_period, renew_period, period_stack, mutex,
                   waitPeriod, waited, mpc, open, exc, calls, failures, clean,
                   started, nEnterOK, nEnterTried, nExitNested, nBgRenew,
                   maxDepth>>
    /\ UNCHANGED <<cvars, avars, xvars>>
\* As AfterWait, ignoring what wait() returns.
AfterWaitAlwaysRenew(pc) == "renew"

\* As AfterWait, never renewing.
AfterWaitNeverRenew(pc) == "check"

\* Line 79: wait() returns True after a notify and False after a timeout.
AfterWait(pc) == IF pc = "timedout" THEN "renew" ELSE "check"

\* As TimerWake, but returning from wait() without taking the lock again.
TimerWakeUnlocked ==
    /\ tpc \in {"timedout", "notified"}
    /\ tpc' = AfterWait(tpc)
    /\ waitPeriod' = 0
    /\ waited' = 0
    /\ UNCHANGED <<fallback_renew_period, renew_period, period_stack, mutex, mpc,
                   open, exc, calls, failures, clean>>
    /\ UNCHANGED hist
    /\ UNCHANGED <<cvars, avars, xvars>>
\* wait() takes the lock again and returns.
TimerWake ==
    /\ tpc \in {"timedout", "notified"}
    /\ mutex = "free"
    /\ mutex' = "thread"
    /\ tpc' = AfterWait(tpc)
    /\ waitPeriod' = 0
    /\ waited' = 0
    /\ UNCHANGED <<fallback_renew_period, renew_period, period_stack, mpc, open,
                   exc, calls, failures, clean>>
    /\ UNCHANGED hist
    /\ UNCHANGED <<cvars, avars, xvars>>
\* Line 81: self.__eva.lock_renew(); an exception ends the thread.
TimerRenew ==
    /\ tpc = "renew"
    /\ calls' = Called("lock_renew")
    /\ nBgRenew' = nBgRenew + 1
    /\ \E ok \in RenewOutcomes :
          IF ok
          THEN /\ tpc' = "check"
               /\ UNCHANGED <<mutex, failures, clean>>
          ELSE /\ tpc' = "crashed"
               /\ mutex' = "free"
               /\ failures' = failures + 1
               /\ clean' = FALSE
    /\ UNCHANGED <<fallback_renew_period, renew_period, period_stack, waitPeriod,
                   waited, mpc, open, exc, started, nEnterOK, nEnterTried,
                   nExitNested, timeouts, maxDepth>>
    /\ UNCHANGED <<cvars, avars, xvars>>
\* Lines 83-85: unlock and return once the stack is empty, else wait again.
TimerCheck ==
    /\ tpc = "check"
    /\ IF Len(period_stack) = 0
       THEN /\ calls' = Called("unlock")
            /\ tpc' = "done"
            /\ mutex' = "free"
       ELSE /\ tpc' = "locked"
            /\ UNCHANGED <<calls, mutex>>
    /\ UNCHANGED <<fallback_renew_period, renew_period, period_stack, waitPeriod,
                   waited, mpc, open, exc, failures, clean>>
    /\ UNCHANGED hist
    /\ UNCHANGED <<cvars, avars, xvars>>
\* ------------------------------------------------------------------ the clock
\* One tick passes, but time does not pass beyond the deadline of a wait in
\* progress: the wait expires first.
Tick ==
    /\ ~(tpc = "waiting" /\ waited >= waitPeriod)
    /\ waited' = IF tpc = "waiting" THEN waited + 1 ELSE waited
    /\ UNCHANGED <<fallback_renew_period, renew_period, period_stack, mutex, tpc,
                   waitPeriod, mpc, open, exc, calls, failures, clean, started,
                   nEnterOK, nEnterTried, nExitNested, timeouts, nBgRenew,
                   maxDepth>>
    /\ UNCHANGED <<cvars, avars, xvars>>
Next ==
    \/ \E p \in Periods \cup {None} : SetRenewPeriod(p)
    \/ EnterOuter
    \/ EnterAcquire
    \/ EnterNested
    \/ BodyRaise
    \/ Catch
    \/ ExitAcquire
    \/ ExitBody
    \/ ExitJoin
    \/ TimerAcquire
    \/ TimerWait
    \/ TimerExpire
    \/ TimerWake
    \/ TimerRenew
    \/ TimerCheck
    \/ Tick

Spec == Init /\ [][Next]_allvars

\* ================================================================== EvaHTTPClient
\* The statuses the server answers with, per request.
PrimaryStatuses == {200, 401, 500}
RenewStatuses == {204, 401, 403, 500}
VersionStatuses == {200, 500}
CreateStatuses == {200, 401, 500}
InvalidateStatuses == {204, 401, 500}

\* The renew_period values a client is constructed with.
RenewPeriods == {0, ShortRenewPeriod, DefaultRenewPeriod, HardExpiry}

\* The instants, in seconds after __last_renew, that the tests of the client tell
\* apart: up to the renew period, inside the renewal window, at the hard expiry
\* and beyond it.
TimePoints(period) ==
    {0, period, period + 1, HardExpiry - 1, HardExpiry, HardExpiry + 1}

\* eva_error(label, r): the exception class raised for a response status.
ErrorFor(status) ==
    IF status = 401 THEN "EvaValidationError"
    ELSE IF status = 403 THEN "EvaAdminError"
    ELSE IF 400 <= status /\ status < 500 THEN "EvaError"
    ELSE IF 500 <= status /\ status < 600 THEN "EvaServerError"
    ELSE "EvaError"

\* `except EvaError` catches EvaError and its subclasses.
IsEvaError(e) ==
    e \in {"EvaError", "EvaValidationError", "EvaAuthError", "EvaAdminError",
           "EvaServerError", "EvaAutoRenewError"}

\* As RenewDue, with both comparisons inclusive.
RenewDueInclusive(period, e) == period <= e /\ e <= HardExpiry

\* Line 61: self.renew_period < time.time() - self.__last_renew < 30 * 60.
RenewDue(period, e) == period < e /\ e < HardExpiry

\* The variables no step inside a call changes.
fixed == <<built, http_renew_period, op, prev, nCalls>>

\* A public method is called: what every call starts from.
Begin(name) ==
    /\ built
    /\ cpc = "idle"
    /\ nCalls < MaxCalls
    /\ nCalls' = nCalls + 1
    /\ op' = name
    /\ prev' = [op |-> op, kind |-> result.kind]
    /\ result' = NoResult
    /\ r2' = 0 /\ rr' = 0 /\ vs' = 0 /\ cs' = 0 /\ ds' = 0
    /\ nRenew' = 0
    /\ retryToken' = None
    /\ seenElapsed' = elapsed
    /\ UNCHANGED <<built, session_token, http_renew_period, elapsed, gone, tokens>>

\* The public method ends, by return or by raise.
Finish(kind, status, error) ==
    /\ cpc' = "idle"
    /\ frames' = <<>>
    /\ result' = [kind |-> kind, status |-> status, error |-> error, token |-> None]

\* As RenewRaises, but dropping the exception and returning the response.
RenewRaisesSwallowed(e) == Finish("return", r, "none")

\* An exception leaves auth_renew_session. Called by api_call_with_auth, lines
\* 62-66: an EvaError is replaced by EvaAutoRenewError, any other exception
\* propagates. Called by the user, the exception propagates.
RenewRaises(e) ==
    Finish("raise", 0,
           IF frames[1] = "api" /\ IsEvaError(e) THEN "EvaAutoRenewError" ELSE e)

\* auth_renew_session has returned: line 68 of api_call_with_auth returns the
\* first response; called by the user it has returned None (r is 0 then).
RenewReturns == Finish("return", r, "none")

\* auth_create_session returns: to line 59 when called for a 401 of the first
\* attempt, with the stored token (line 136) when called by the user, else to
\* auth_renew_session, which returns in turn.
CreateReturns ==
    IF frames = <<"api", "create">>
    THEN /\ cpc' = "a_retry"
         /\ frames' = <<"api">>
         /\ UNCHANGED result
    ELSE IF frames = <<"create">>
    THEN /\ cpc' = "idle"
         /\ frames' = <<>>
         /\ result' = [kind |-> "return", status |-> 0, error |-> "none",
                       token |-> session_token']
    ELSE RenewReturns

\* As CreateRaises, but with auth_renew_session swallowing the exception of its
\* fallback auth_create_session.
CreateRaisesSwallowedByRenew(e) ==
    IF Len(frames) > 1 /\ frames[Len(frames) - 1] = "renew"
    THEN RenewReturns
    ELSE Finish("raise", 0, e)

\* An exception leaves auth_create_session: line 58 has no handler, and
\* auth_renew_session has none either.
CreateRaises(e) ==
    IF Len(frames) > 1 /\ frames[Len(frames) - 1] = "renew"
    THEN RenewRaises(e)
    ELSE Finish("raise", 0, e)

\* api_call_with_auth, lines 52-58: the first request; a 401 calls
\* auth_create_session.
ApiFirst ==
    /\ Begin("api")
    /\ \E status \in PrimaryStatuses :
          /\ r' = status
          /\ IF status = 401
             THEN /\ cpc' = "c_versions"
                  /\ frames' = <<"api", "create">>
                  /\ nCreate' = 1
             ELSE /\ cpc' = "a_check"
                  /\ frames' = <<"api">>
                  /\ nCreate' = 0
    /\ nPrimary' = 1
    /\ nRequests' = 1
    /\ UNCHANGED <<vars, avars, xvars>>

\* Lines 61-68: the test of the time since the last renewal.
ApiCheck ==
    /\ cpc = "a_check"
    /\ seenElapsed' = elapsed
    /\ IF RenewDue(http_renew_period, elapsed)
       THEN /\ cpc' = "r_req"
            /\ frames' = <<"api", "renew">>
            /\ UNCHANGED result
       ELSE Finish("return", r, "none")
    /\ UNCHANGED <<session_token, elapsed, gone, tokens, r, r2, rr, vs, cs, ds,
                   retryToken, nPrimary, nCreate, nRenew, nRequests>>
    /\ UNCHANGED fixed
    /\ UNCHANGED <<vars, avars, xvars>>

\* auth_renew_session called by the user.
AuthRenewSession ==
    /\ Begin("renew")
    /\ cpc' = "r_req"
    /\ frames' = <<"renew">>
    /\ r' = 0
    /\ nPrimary' = 0 /\ nCreate' = 0 /\ nRequests' = 0
    /\ UNCHANGED <<vars, avars, xvars>>

\* As RenewRequest, but keeping the token when the status is 401.
RenewRequestKeepsToken ==
    /\ cpc = "r_req"
    /\ nRenew' = nRenew + 1
    /\ nRequests' = nRequests + 1
    /\ \E status \in RenewStatuses :
          /\ rr' = status
          /\ IF status = 401
             THEN /\ nCreate' = nCreate + 1
                  /\ cpc' = "c_versions"
                  /\ frames' = Append(frames, "create")
                  /\ UNCHANGED <<session_token, elapsed, result>>
             ELSE IF status # 204
             THEN /\ RenewRaises(ErrorFor(status))
                  /\ UNCHANGED <<session_token, nCreate, elapsed>>
             ELSE /\ elapsed' = 0
                  /\ RenewReturns
                  /\ UNCHANGED <<session_token, nCreate>>
    /\ UNCHANGED <<gone, tokens, r, r2, vs, cs, ds, retryToken, seenElapsed,
                   nPrimary>>
    /\ UNCHANGED fixed
    /\ UNCHANGED <<vars, avars, xvars>>

\* As RenewRequest, but with the timestamp refreshed whatever the status.
RenewRequestStamps ==
    /\ cpc = "r_req"
    /\ nRenew' = nRenew + 1
    /\ nRequests' = nRequests + 1
    /\ elapsed' = 0
    /\ \E status \in RenewStatuses :
          /\ rr' = status
          /\ IF status = 401
             THEN /\ session_token' = None
                  /\ nCreate' = nCreate + 1
                  /\ cpc' = "c_versions"
                  /\ frames' = Append(frames, "create")
                  /\ UNCHANGED result
             ELSE IF status # 204
             THEN /\ RenewRaises(ErrorFor(status))
                  /\ UNCHANGED <<session_token, nCreate>>
             ELSE /\ RenewReturns
                  /\ UNCHANGED <<session_token, nCreate>>
    /\ UNCHANGED <<gone, tokens, r, r2, vs, cs, ds, retryToken, seenElapsed,
                   nPrimary>>
    /\ UNCHANGED fixed
    /\ UNCHANGED <<vars, avars, xvars>>

\* auth_renew_session, lines 108-118: POST auth/renew and the three branches.
RenewRequest ==
    /\ cpc = "r_req"
    /\ nRenew' = nRenew + 1
    /\ nRequests' = nRequests + 1
    /\ \E status \in RenewStatuses :
          /\ rr' = status
          /\ IF status = 401
             THEN /\ session_token' = None
                  /\ nCreate' = nCreate + 1
                  /\ cpc' = "c_versions"
                  /\ frames' = Append(frames, "create")
                  /\ UNCHANGED <<elapsed, result>>
             ELSE IF status # 204
             THEN /\ RenewRaises(ErrorFor(status))
                  /\ UNCHANGED <<session_token, nCreate, elapsed>>
             ELSE /\ elapsed' = 0
                  /\ RenewReturns
                  /\ UNCHANGED <<session_token, nCreate>>
    /\ UNCHANGED <<gone, tokens, r, r2, vs, cs, ds, retryToken, seenElapsed,
                   nPrimary>>
    /\ UNCHANGED fixed
    /\ UNCHANGED <<vars, avars, xvars>>

\* auth_create_session called by the user.
AuthCreateSession ==
    /\ Begin("create")
    /\ cpc' = "c_versions"
    /\ frames' = <<"create">>
    /\ r' = 0
    /\ nPrimary' = 0 /\ nRequests' = 0
    /\ nCreate' = 1
    /\ UNCHANGED <<vars, avars, xvars>>

\* auth_create_session, line 124: _check_version_compatibility. A status other
\* than 200 gives an error string that is logged; with status 200 line 581 calls
\* sdk_is_compatible_with_robot, which takes two versions, with one argument,
\* and the TypeError leaves auth_create_session.
CreateVersions ==
    /\ cpc = "c_versions"
    /\ nRequests' = nRequests + 1
    /\ \E status \in VersionStatuses :
          /\ vs' = status
          /\ IF status = 200
             THEN CreateRaises("TypeError")
             ELSE /\ cpc' = "c_req"
                  /\ UNCHANGED <<frames, result>>
    /\ UNCHANGED <<session_token, elapsed, gone, tokens, r, r2, rr, cs, ds,
                   retryToken, seenElapsed, nPrimary, nCreate, nRenew>>
    /\ UNCHANGED fixed
    /\ UNCHANGED <<vars, avars, xvars>>

\* As CreateRequest, but storing the time before the status is tested.
CreateRequestStamps ==
    /\ cpc = "c_req"
    /\ nRequests' = nRequests + 1
    /\ elapsed' = 0
    /\ \E status \in CreateStatuses :
          /\ cs' = status
          /\ IF status # 200
             THEN /\ CreateRaises(ErrorFor(status))
                  /\ UNCHANGED <<session_token, tokens>>
             ELSE /\ tokens' = tokens + 1
                  /\ session_token' = tokens + 1
                  /\ CreateReturns
    /\ UNCHANGED <<gone, r, r2, rr, vs, ds, retryToken, seenElapsed, nPrimary,
                   nCreate, nRenew>>
    /\ UNCHANGED fixed
    /\ UNCHANGED <<vars, avars, xvars>>

\* auth_create_session, lines 128-136: POST auth, then store the time and the token.
CreateRequest ==
    /\ cpc = "c_req"
    /\ nRequests' = nRequests + 1
    /\ \E status \in CreateStatuses :
          /\ cs' = status
          /\ IF status # 200
             THEN /\ CreateRaises(ErrorFor(status))
                  /\ UNCHANGED <<elapsed, session_token, tokens>>
             ELSE /\ elapsed' = 0
                  /\ tokens' = tokens + 1
                  /\ session_token' = tokens + 1
                  /\ CreateReturns
    /\ UNCHANGED <<gone, r, r2, rr, vs, ds, retryToken, seenElapsed, nPrimary,
                   nCreate, nRenew>>
    /\ UNCHANGED fixed
    /\ UNCHANGED <<vars, avars, xvars>>

\* As ApiRetry, but treating a 401 of the retry as line 56 treats one of the
\* first attempt.
ApiRetryAgain ==
    /\ cpc = "a_retry"
    /\ nPrimary' = nPrimary + 1
    /\ nRequests' = nRequests + 1
    /\ retryToken' = session_token
    /\ seenElapsed' = elapsed
    /\ \E status \in PrimaryStatuses :
          /\ r2' = status
          /\ IF status = 401
             THEN /\ cpc' = "c_versions"
                  /\ frames' = <<"api", "create">>
                  /\ nCreate' = nCreate + 1
                  /\ UNCHANGED result
             ELSE /\ Finish("return", status, "none")
                  /\ UNCHANGED nCreate
    /\ UNCHANGED <<session_token, elapsed, gone, tokens, r, rr, vs, cs, ds, nRenew>>
    /\ UNCHANGED fixed
    /\ UNCHANGED <<vars, avars, xvars>>

\* Line 59: the same request again, its response returned as it is.
ApiRetry ==
    /\ cpc = "a_retry"
    /\ nPrimary' = nPrimary + 1
    /\ nRequests' = nRequests + 1
    /\ retryToken' = session_token
    /\ seenElapsed' = elapsed
    /\ \E status \in PrimaryStatuses :
          /\ r2' = status
          /\ Finish("return", status, "none")
    /\ UNCHANGED <<session_token, elapsed, gone, tokens, r, rr, vs, cs, ds,
                   nCreate, nRenew>>
    /\ UNCHANGED fixed
    /\ UNCHANGED <<vars, avars, xvars>>

\* auth_invalidate_session called by the user.
AuthInvalidateSession ==
    /\ Begin("invalidate")
    /\ cpc' = "d_req"
    /\ frames' = <<"invalidate">>
    /\ r' = 0
    /\ nPrimary' = 0 /\ nCreate' = 0 /\ nRequests' = 0
    /\ UNCHANGED <<vars, avars, xvars>>

\* As InvalidateRequest, but clearing the token before the status is tested.
InvalidateRequestClears ==
    /\ cpc = "d_req"
    /\ nRequests' = nRequests + 1
    /\ gone' = session_token
    /\ session_token' = None
    /\ \E status \in InvalidateStatuses :
          /\ ds' = status
          /\ IF status # 204
             THEN Finish("raise", 0, ErrorFor(status))
             ELSE Finish("return", 0, "none")
    /\ UNCHANGED <<elapsed, tokens, r, r2, rr, vs, cs, retryToken, seenElapsed,
                   nPrimary, nCreate, nRenew>>
    /\ UNCHANGED fixed
    /\ UNCHANGED <<vars, avars, xvars>>

\* auth_invalidate_session, lines 142-147: DELETE auth, then clear the token.
InvalidateRequest ==
    /\ cpc = "d_req"
    /\ nRequests' = nRequests + 1
    /\ \E status \in InvalidateStatuses :
          /\ ds' = status
          /\ IF status # 204
             THEN /\ Finish("raise", 0, ErrorFor(status))
                  /\ UNCHANGED <<session_token, gone>>
             ELSE /\ gone' = session_token
                  /\ session_token' = None
                  /\ Finish("return", 0, "none")
    /\ UNCHANGED <<elapsed, tokens, r, r2, rr, vs, cs, retryToken, seenElapsed,
                   nPrimary, nCreate, nRenew>>
    /\ UNCHANGED fixed
    /\ UNCHANGED <<vars, avars, xvars>>

\* Time passes, between calls and while a request is under way.
Pass ==
    /\ built
    /\ \E t \in TimePoints(http_renew_period) :
          /\ t > elapsed
          /\ elapsed' = t
    /\ UNCHANGED <<session_token, cpc, frames, result, gone, tokens, nRequests>>
    /\ UNCHANGED callhist
    /\ UNCHANGED fixed
    /\ UNCHANGED <<vars, avars, xvars>>

ClientInit ==
    /\ LockerStart
    /\ \E period \in RenewPeriods : ClientStart(period)
    /\ AutomataStart(FallbackPeriod)
    /\ OtherStart

\* The steps inside a call: each is one request and the code up to the next.
ClientStep ==
    \/ ApiCheck
    \/ RenewRequest
    \/ CreateVersions
    \/ CreateRequest
    \/ ApiRetry
    \/ InvalidateRequest

ClientNext ==
    \/ ApiFirst
    \/ AuthCreateSession
    \/ AuthRenewSession
    \/ AuthInvalidateSession
    \/ ClientStep
    \/ Pass

ClientSpec == ClientInit /\ [][ClientNext]_allvars

\* Every request returns or raises within its timeout, so a call in progress
\* takes its next step.
FairClientSpec == ClientSpec /\ WF_allvars(ClientStep)

\* ================================================================== automata.EvaWithLocker
\* The non-reentrant locker of src/automata: one flag instead of a stack. The
\* thread waits inside `with self.__cond` and tests the flag after leaving it.

\* The mock after one more call of method m.
AutomataCalled(m) == [a_calls EXCEPT ![m] = @ + 1]

\* The outcomes lock_renew() of the mock can have: TRUE returns, FALSE raises.
AutomataRenewOutcomes == IF a_failures < MaxFail THEN {TRUE, FALSE} ELSE {TRUE}

\* As AutomataEnter, but with the confirm-renew made before the test of the flag.
AutomataEnterRenewsFirst ==
    /\ a_mpc = "idle" /\ a_exc = "none"
    /\ a_nEnter < MaxEnters
    /\ a_nEnter' = a_nEnter + 1
    /\ a_calls' = AutomataCalled("lock_renew")
    /\ \E ok \in AutomataRenewOutcomes :
          IF ~ok
          THEN /\ a_exc' = "enter_renew"
               /\ a_failures' = a_failures + 1
               /\ UNCHANGED <<locked, a_tpc, a_started, a_open>>
          ELSE IF locked
          THEN /\ a_exc' = "enter_locked"
               /\ UNCHANGED <<locked, a_tpc, a_started, a_open, a_failures>>
          ELSE /\ locked' = TRUE
               /\ a_tpc' = "start"
               /\ a_started' = a_started + 1
               /\ a_open' = a_open + 1
               /\ UNCHANGED <<a_exc, a_failures>>
    /\ UNCHANGED <<a_period, a_mutex, a_waited, a_mpc, a_timeouts>>
    /\ UNCHANGED <<vars, cvars, xvars>>

\* __enter__, lines 22-34: raise if the flag is set, else confirm-renew, set the
\* flag, create the condition and start the thread.
AutomataEnter ==
    /\ a_mpc = "idle" /\ a_exc = "none"
    /\ a_nEnter < MaxEnters
    /\ a_nEnter' = a_nEnter + 1
    /\ IF locked
       THEN /\ a_exc' = "enter_locked"
            /\ UNCHANGED <<locked, a_tpc, a_started, a_open, a_calls, a_failures>>
       ELSE /\ a_calls' = AutomataCalled("lock_renew")
            /\ \E ok \in AutomataRenewOutcomes :
                  IF ok
                  THEN /\ locked' = TRUE
                       /\ a_tpc' = "start"
                       /\ a_started' = a_started + 1
                       /\ a_open' = a_open + 1
                       /\ UNCHANGED <<a_exc, a_failures>>
                  ELSE /\ a_exc' = "enter_renew"
                       /\ a_failures' = a_failures + 1
                       /\ UNCHANGED <<locked, a_tpc, a_started, a_open>>
    /\ UNCHANGED <<a_period, a_mutex, a_waited, a_mpc, a_timeouts>>
    /\ UNCHANGED <<vars, cvars, xvars>>

\* An except clause or assertRaises of the caller, outside the scope, handles
\* the propagating exception.
AutomataCatch ==
    /\ a_mpc = "idle" /\ a_exc # "none"
    /\ a_open = 0
    /\ a_exc' = "none"
    /\ UNCHANGED <<locked, a_period, a_mutex, a_tpc, a_waited, a_mpc, a_open,
                   a_calls, a_started, a_nEnter, a_timeouts, a_failures>>
    /\ UNCHANGED <<vars, cvars, xvars>>

\* __exit__, line 38: `with self.__cond`.
AutomataExitAcquire ==
    /\ a_mpc = "idle"
    /\ a_open > 0
    /\ a_mutex = "free"
    /\ a_mutex' = "main"
    /\ a_mpc' = "exit_cs"
    /\ UNCHANGED <<locked, a_period, a_tpc, a_waited, a_open, a_exc, a_calls,
                   a_started, a_nEnter, a_timeouts, a_failures>>
    /\ UNCHANGED <<vars, cvars, xvars>>

\* Lines 39-40: clear the flag and notify_all, then leave the `with` block.
AutomataExitBody ==
    /\ a_mpc = "exit_cs"
    /\ locked' = FALSE
    /\ a_tpc' = Notified(a_tpc)
    /\ a_mutex' = "free"
    /\ a_mpc' = "exit_join"
    /\ UNCHANGED <<a_period, a_waited, a_open, a_exc, a_calls, a_started,
                   a_nEnter, a_timeouts, a_failures>>
    /\ UNCHANGED <<vars, cvars, xvars>>

\* Line 41: join the thread.
AutomataExitJoin ==
    /\ a_mpc = "exit_join"
    /\ a_tpc \in {"done", "crashed"}
    /\ a_mpc' = "idle"
    /\ a_open' = a_open - 1
    /\ UNCHANGED <<locked, a_period, a_mutex, a_tpc, a_waited, a_exc, a_calls,
                   a_started, a_nEnter, a_timeouts, a_failures>>
    /\ UNCHANGED <<vars, cvars, xvars>>

\* __start_loop, lines 46-47: take the lock and wait, which releases it.
AutomataWait ==
    /\ a_tpc = "start"
    /\ a_mutex = "free"
    /\ a_tpc' = "waiting"
    /\ a_waited' = 0
    /\ UNCHANGED <<locked, a_period, a_mutex, a_mpc, a_open, a_exc, a_calls,
                   a_started, a_nEnter, a_timeouts, a_failures>>
    /\ UNCHANGED <<vars, cvars, xvars>>

\* wait(): the timeout elapses before any notify.
AutomataExpire ==
    /\ a_tpc = "waiting"
    /\ a_waited >= a_period
    /\ a_timeouts < MaxTimeouts \/ ~locked
    /\ a_tpc' = "timedout"
    /\ a_timeouts' = a_timeouts + 1
    /\ UNCHANGED <<locked, a_period, a_mutex, a_waited, a_mpc, a_open, a_exc,
                   a_calls, a_started, a_nEnter, a_failures>>
    /\ UNCHANGED <<vars, cvars, xvars>>

\* wait() takes the lock again and returns, and the `with` block releases it.
AutomataWake ==
    /\ a_tpc \in {"timedout", "notified"}
    /\ a_mutex = "free"
    /\ a_tpc' = "decide"
    /\ a_waited' = 0
    /\ UNCHANGED <<locked, a_period, a_mutex, a_mpc, a_open, a_exc, a_calls,
                   a_started, a_nEnter, a_timeouts, a_failures>>
    /\ UNCHANGED <<vars, cvars, xvars>>

\* Lines 48-52: the test of the flag, outside the lock; unlock and return if it
\* is clear.
AutomataDecide ==
    /\ a_tpc = "decide"
    /\ IF locked
       THEN /\ a_tpc' = "renew"
            /\ UNCHANGED a_calls
       ELSE /\ a_tpc' = "done"
            /\ a_calls' = AutomataCalled("unlock")
    /\ UNCHANGED <<locked, a_period, a_mutex, a_waited, a_mpc, a_open, a_exc,
                   a_started, a_nEnter, a_timeouts, a_failures>>
    /\ UNCHANGED <<vars, cvars, xvars>>

\* Line 49: self.__eva.lock_renew(); an exception ends the thread.
AutomataRenew ==
    /\ a_tpc = "renew"
    /\ a_calls' = AutomataCalled("lock_renew")
    /\ \E ok \in AutomataRenewOutcomes :
          IF ok
          THEN /\ a_tpc' = "start"
               /\ UNCHANGED a_failures
          ELSE /\ a_tpc' = "crashed"
               /\ a_failures' = a_failures + 1
    /\ UNCHANGED <<locked, a_period, a_mutex, a_waited, a_mpc, a_open, a_exc,
                   a_started, a_nEnter, a_timeouts>>
    /\ UNCHANGED <<vars, cvars, xvars>>

\* One tick passes, but not beyond the deadline of a wait in progress.
AutomataTick ==
    /\ a_tpc = "waiting"
    /\ a_waited < a_period
    /\ a_waited' = a_waited + 1
    /\ UNCHANGED <<locked, a_period, a_mutex, a_tpc, a_mpc, a_open, a_exc,
                   a_calls, a_started, a_nEnter, a_timeouts, a_failures>>
    /\ UNCHANGED <<vars, cvars, xvars>>

AutomataInit ==
    /\ LockerStart
    /\ ClientStart(DefaultRenewPeriod)
    /\ \E period \in Periods : AutomataStart(period)
    /\ OtherStart

AutomataNext ==
    \/ AutomataEnter
    \/ AutomataCatch
    \/ AutomataExitAcquire
    \/ AutomataExitBody
    \/ AutomataExitJoin
    \/ AutomataWait
    \/ AutomataExpire
    \/ AutomataWake
    \/ AutomataDecide
    \/ AutomataRenew
    \/ AutomataTick

AutomataSpec == AutomataInit /\ [][AutomataNext]_allvars

\* ================================================================== either locker, scheduled fairly
\* The steps of the renewal thread of evasdk's locker, and the return of join():
\* a runnable thread is scheduled, and the calls on the Eva object return or
\* raise. No assumption on time.
LockerProgress ==
    \/ TimerAcquire
    \/ TimerWait
    \/ TimerWake
    \/ TimerRenew
    \/ TimerCheck
    \/ ExitJoin

\* The same for the thread of automata's locker, whose timed wait also ends by
\* time passing.
AutomataProgress ==
    \/ AutomataWait
    \/ AutomataTick
    \/ AutomataExpire
    \/ AutomataWake
    \/ AutomataDecide
    \/ AutomataRenew
    \/ AutomataExitJoin

\* A program uses the locker of one package: the other one stays as constructed.
LockerUnused == nEnterTried = 0 /\ renew_period = fallback_renew_period
AutomataUnused == a_nEnter = 0

\* __enter__ calls per run of evasdk's locker under fair scheduling: enough for
\* a nested scope.
FairEnters == MaxEnters - 1

LockersNext ==
    \/ AutomataUnused /\ Next /\ nEnterTried' <= FairEnters
    \/ LockerUnused /\ AutomataNext

FairLockersSpec ==
    /\ Init
    /\ [][LockersNext]_allvars
    /\ WF_allvars(LockerProgress)
    /\ WF_allvars(AutomataProgress)

\* ================================================================== Eva: lock scopes and teach-mode calls
\* An Eva object used by one caller: `with eva` scopes, which enter and exit its
\* locker with the requested period as it stands, and control_home,
\* control_run and control_go_to in teach mode, which wrap their HTTP call in
\* `with self.__eva_locker.set_renew_period(Eva.__TEACH_RENEW_PERIOD)`. Eva
\* offers no other way to set the requested period.

\* Eva.__TEACH_RENEW_PERIOD, in ticks: a period other than the fallback period
\* the locker of an Eva is built with.
TeachPeriod == MaxPeriod

\* The variables of the other parts.
notEvaVars == <<cvars, avars, rvars, hvars, svars, wvars>>

\* Eva.py line 632 (660, 693): set_renew_period(Eva.__TEACH_RENEW_PERIOD), inside
\* an open lock scope.
TeachSet ==
    /\ teach = "no"
    /\ mpc = "idle" /\ exc = "none"
    /\ open > 0
    /\ nTeach < MaxTeach
    /\ nTeach' = nTeach + 1
    /\ teach' = "set"
    /\ renew_period' = TeachPeriod
    /\ UNCHANGED <<fallback_renew_period, period_stack, mutex, tpc, waitPeriod,
                   waited, mpc, open, exc, calls, failures, clean>>
    /\ UNCHANGED hist
    /\ UNCHANGED notEvaVars

\* The `with` of line 632 calls __enter__: eva_locker.py line 49.
TeachEnterAcquire ==
    /\ teach = "set"
    /\ mpc = "idle"
    /\ mutex = "free"
    /\ mutex' = "main"
    /\ mpc' = "enter_cs"
    /\ UNCHANGED <<fallback_renew_period, renew_period, period_stack, tpc,
                   waitPeriod, waited, open, exc, calls, failures, clean>>
    /\ UNCHANGED hist
    /\ UNCHANGED <<teach, nTeach>>
    /\ UNCHANGED notEvaVars

\* eva_locker.py lines 50-57 for that __enter__: on a raise the control call
\* ends with the exception, its HTTP call not made.
TeachEnterNested ==
    /\ teach = "set"
    /\ mpc = "enter_cs"
    /\ IF Redundant(renew_period, period_stack)
       THEN /\ exc' = "enter_same"
            /\ clean' = FALSE
            /\ UNCHANGED <<period_stack, tpc, open, nEnterOK, maxDepth,
                           calls, failures>>
       ELSE /\ calls' = Called("lock_renew")
            /\ \E ok \in RenewOutcomes : EnterNestedEffect(ok)
    /\ teach' = IF exc' = "none" THEN "body" ELSE "no"
    /\ mutex' = "free"
    /\ mpc' = "idle"
    /\ UNCHANGED <<fallback_renew_period, renew_period, waitPeriod, waited,
                   started, nEnterTried, nExitNested, timeouts, nBgRenew>>
    /\ UNCHANGED nTeach
    /\ UNCHANGED notEvaVars

\* Line 633: the HTTP call of the control method returns or raises.
TeachHttp ==
    /\ teach = "body"
    /\ teach' = "called"
    /\ \E ok \in BOOLEAN :
          IF ok
          THEN UNCHANGED <<exc, clean>>
          ELSE exc' = "body" /\ clean' = FALSE
    /\ UNCHANGED <<fallback_renew_period, renew_period, period_stack, mutex, tpc,
                   waitPeriod, waited, mpc, open, calls, failures>>
    /\ UNCHANGED hist
    /\ UNCHANGED nTeach
    /\ UNCHANGED notEvaVars

\* The `with` of line 632 calls __exit__: eva_locker.py line 63.
TeachExitAcquire ==
    /\ teach = "called"
    /\ mutex = "free"
    /\ mutex' = "main"
    /\ mpc' = "exit_cs"
    /\ teach' = "exit"
    /\ UNCHANGED <<fallback_renew_period, renew_period, period_stack, tpc,
                   waitPeriod, waited, open, exc, calls, failures, clean>>
    /\ UNCHANGED hist
    /\ UNCHANGED nTeach
    /\ UNCHANGED notEvaVars

\* The control method returns, or lets the exception out, to the caller.
TeachReturn ==
    /\ teach = "exit"
    /\ mpc = "idle"
    /\ teach' = "no"
    /\ UNCHANGED vars
    /\ UNCHANGED nTeach
    /\ UNCHANGED notEvaVars

\* What the caller does between control calls: Eva.__enter__ and __exit__ (lines
\* 67-73), a raise in the body of a scope, an except clause.
EvaCaller ==
    \/ EnterOuter
    \/ EnterAcquire
    \/ EnterNested
    \/ BodyRaise
    \/ Catch
    \/ ExitAcquire

\* The steps of __exit__ past its first line, and of the renewal thread, and
\* the clock.
EvaLocker ==
    \/ ExitBody
    \/ ExitJoin
    \/ TimerAcquire
    \/ TimerWait
    \/ TimerExpire
    \/ TimerWake
    \/ TimerRenew
    \/ TimerCheck
    \/ Tick

EvaNext ==
    \/ teach = "no" /\ EvaCaller
    \/ EvaLocker
    \/ TeachSet
    \/ TeachEnterAcquire
    \/ TeachEnterNested
    \/ TeachHttp
    \/ TeachExitAcquire
    \/ TeachReturn

EvaSpec == Init /\ [][EvaNext]_allvars

\* ================================================================== eva_error
\* eva_errors.eva_error(label, r=None), called once with any response or none.
Statuses == 100..MaxStatus

\* What r.json() can do: return an object with an 'error' key, return one
\* without, return a number, or raise ValueError.
Bodies == {"error", "plain", "number", "not_json"}

\* The variables of the other parts.
notErrorVars == <<vars, cvars, avars, evars, hvars, svars, wvars>>

\* As ErrorFor, with 401 mapped to the class documented for it.
ErrorForDocumented(status) ==
    IF status = 401 THEN "EvaAuthError" ELSE ErrorFor(status)

\* eva_error, lines 37-41, and __handle_http_error, lines 44-64: every path
\* ends in a raise. Line 48, `'error' in r_json`, raises TypeError on a number,
\* which line 50 does not catch.
EvaErrorCall ==
    /\ ~e_called
    /\ e_called' = TRUE
    /\ \/ /\ e_status' = None
          /\ e_body' = "none"
          /\ e_raised' = "EvaError"
          /\ e_detail' = FALSE
       \/ \E status \in Statuses, body \in Bodies :
             /\ e_status' = status
             /\ e_body' = body
             /\ e_raised' = IF body = "number" THEN "TypeError" ELSE ErrorFor(status)
             /\ e_detail' = (body = "error")
    /\ UNCHANGED notErrorVars

ErrorInit ==
    /\ LockerStart
    /\ ClientStart(DefaultRenewPeriod)
    /\ AutomataStart(FallbackPeriod)
    /\ OtherStart

ErrorNext == EvaErrorCall

ErrorSpec == ErrorInit /\ [][ErrorNext]_allvars

\* ================================================================== headers of the requests
\* EvaHTTPClient.__api_request and its headers={} default: one dict, created
\* when the function is defined, shared by every call that passes no headers
\* and by every client. A dict is modelled by whether it holds User-Agent and
\* by the token of its Authorization entry (None for 'Bearer None'), or Absent.
Clients == 1..MaxClients

\* The variables of the other parts.
notHeaderVars == <<vars, cvars, avars, rvars, evars, svars, wvars>>

\* Lines 73-75: the dict the body works on is the default itself when the
\* caller passes no headers and the default is still empty; a non-empty dict,
\* the default included, is copied.
UsesDefault(custom) ==
    /\ ~custom
    /\ ~h_default.ua /\ h_default.authorization = Absent

\* The Authorization entry of the dict of line 74-75 before line 77: a dict
\* the caller passes holds none.
Inherited(custom) == IF custom THEN Absent ELSE h_default.authorization

\* __api_request, lines 73-89, called by client c through api_call_with_auth
\* (add_auth) or api_call_no_auth, with or without a headers argument.
ApiRequest(c, add_auth, custom) ==
    /\ h_sent' = [client |-> c, add_auth |-> add_auth,
                  authorization |-> IF add_auth THEN h_token[c]
                                    ELSE Inherited(custom)]
    /\ h_default' = IF UsesDefault(custom)
                    THEN [ua |-> TRUE, authorization |-> h_sent'.authorization]
                    ELSE h_default
    /\ UNCHANGED <<h_token, h_issued>>
    /\ UNCHANGED notHeaderVars

\* auth_create_session, line 135: the client stores the token the robot issued.
StoreToken(c) ==
    /\ h_issued < MaxTokens
    /\ h_issued' = h_issued + 1
    /\ h_token' = [h_token EXCEPT ![c] = h_issued + 1]
    /\ UNCHANGED <<h_default, h_sent>>
    /\ UNCHANGED notHeaderVars

HeadersInit ==
    /\ LockerStart
    /\ ClientStart(DefaultRenewPeriod)
    /\ AutomataStart(FallbackPeriod)
    /\ OtherStart

HeadersNext ==
    \/ \E c \in Clients, add_auth \in BOOLEAN, custom \in BOOLEAN :
          ApiRequest(c, add_auth, custom)
    \/ \E c \in Clients : StoreToken(c)

HeadersSpec == HeadersInit /\ [][HeadersNext]_allvars

\* ================================================================== Websocket.__enter__
\* evasdk.eva_ws.Websocket: __enter__ starts the websocket thread and then waits
\* on self.__cond, with the timeout and without a predicate; the thread runs
\* WebSocketApp.run_forever, which calls __on_open once the connection is open.
\* Each `with self.__cond` block below is one step, so the lock of the
\* condition needs no variable.

\* The variables of the other parts.
notWebsocketVars == <<vars, cvars, avars, rvars, evars, hvars, wvars>>

\* Line 30: self.__thread.start().
WsStart ==
    /\ s_mpc = "init"
    /\ s_mpc' = "started"
    /\ s_tpc' = "connecting"
    /\ UNCHANGED <<s_ws, s_clock, s_waited, s_openAt>>
    /\ UNCHANGED notWebsocketVars

\* Lines 31-32: take the lock and wait(timeout), which releases it.
WsBeginWait ==
    /\ s_mpc = "started"
    /\ s_mpc' = "waiting"
    /\ s_waited' = 0
    /\ UNCHANGED <<s_tpc, s_ws, s_clock, s_openAt>>
    /\ UNCHANGED notWebsocketVars

\* Lines 69-77: run_forever connects, or fails to and returns.
WsConnect ==
    /\ s_tpc = "connecting"
    /\ \E ok \in BOOLEAN : s_tpc' = IF ok THEN "on_open" ELSE "failed"
    /\ UNCHANGED <<s_mpc, s_ws, s_clock, s_waited, s_openAt>>
    /\ UNCHANGED notWebsocketVars

\* __on_open, lines 37-41: under the lock, set self.__ws and notify_all.
WsOnOpen ==
    /\ s_tpc = "on_open"
    /\ s_tpc' = "running"
    /\ s_ws' = TRUE
    /\ s_mpc' = Notified(s_mpc)
    /\ s_openAt' = s_clock
    /\ UNCHANGED <<s_clock, s_waited>>
    /\ UNCHANGED notWebsocketVars

\* wait(): the timeout elapses before any notify.
WsExpire ==
    /\ s_mpc = "waiting"
    /\ s_waited >= WsTimeout
    /\ s_mpc' = "timedout"
    /\ UNCHANGED <<s_tpc, s_ws, s_clock, s_waited, s_openAt>>
    /\ UNCHANGED notWebsocketVars

\* Lines 32-35: wait() returns True after a notify and False after a timeout;
\* __enter__ returns self, or raises EvaWebsocketError.
WsWake ==
    /\ s_mpc \in {"timedout", "notified"}
    /\ s_mpc' = IF s_mpc = "notified" THEN "entered" ELSE "raised"
    /\ UNCHANGED <<s_tpc, s_ws, s_clock, s_waited, s_openAt>>
    /\ UNCHANGED notWebsocketVars

\* One tick passes, but not beyond the deadline of the wait in progress.
WsTick ==
    /\ s_mpc \notin {"init", "entered", "raised"}
    /\ s_clock < MaxClock
    /\ ~(s_mpc = "waiting" /\ s_waited >= WsTimeout)
    /\ s_clock' = s_clock + 1
    /\ s_waited' = IF s_mpc = "waiting" THEN s_waited + 1 ELSE s_waited
    /\ UNCHANGED <<s_mpc, s_tpc, s_ws, s_openAt>>
    /\ UNCHANGED notWebsocketVars

WebsocketInit ==
    /\ LockerStart
    /\ ClientStart(DefaultRenewPeriod)
    /\ AutomataStart(FallbackPeriod)
    /\ OtherStart

WebsocketNext ==
    \/ WsStart
    \/ WsBeginWait
    \/ WsConnect
    \/ WsOnOpen
    \/ WsExpire
    \/ WsWake
    \/ WsTick

WebsocketSpec == WebsocketInit /\ [][WebsocketNext]_allvars

\* ================================================================== lock_wait_for
\* EvaHTTPClient.lock_wait_for(interval_sec=2, timeout=None), called by
\* Eva.lock(wait=True, timeout), against a robot whose lock another user may
\* take and release, and whose requests may fail.

\* The variables of the other parts.
notWaitVars == <<vars, cvars, avars, rvars, evars, hvars, svars>>

\* How lock_status and lock_lock can end: "ok", an EvaError of eva_error or of
\* api_call_with_auth, or another exception (the TypeError of the version
\* check, an exception of requests).
CallOutcomes ==
    {"ok", "EvaError", "EvaServerError", "EvaAutoRenewError", "TypeError",
     "ConnectionError"}

\* As Retried, but catching every exception.
RetriedAlways(e) == TRUE

\* Lines 313-316: the exceptions of lock_lock after which the loop goes on.
Retried(e) == IsEvaError(e)

\* Line 319: timeoutT < time.time().
DeadlinePassed(deadline, now) == deadline < now

\* lock_wait_for is called.
WaitCall ==
    /\ w_pc = "idle"
    /\ w_result = "none"
    /\ w_pc' = "status"
    /\ w_timeout' \in {Absent} \cup 0..MaxWait
    /\ UNCHANGED <<w_owner, w_deadline, w_now, w_nLock, w_slept, w_last,
                   w_result>>
    /\ UNCHANGED notWaitVars

\* Lines 305-309: lock_status, whose exceptions propagate; return if the owner
\* is 'you', else compute timeoutT if a timeout was given.
WaitStatus ==
    /\ w_pc = "status"
    /\ \E out \in CallOutcomes :
          /\ w_last' = out
          /\ IF out # "ok"
             THEN /\ w_pc' = "done" /\ w_result' = out
                  /\ UNCHANGED w_deadline
             ELSE IF w_owner = "you"
             THEN /\ w_pc' = "done" /\ w_result' = "return"
                  /\ UNCHANGED w_deadline
             ELSE /\ w_pc' = "attempt"
                  /\ w_deadline' = IF w_timeout = Absent THEN Absent
                                   ELSE w_now + w_timeout
                  /\ UNCHANGED w_result
    /\ UNCHANGED <<w_owner, w_timeout, w_now, w_nLock, w_slept>>
    /\ UNCHANGED notWaitVars

\* Lines 311-316: lock_lock. It returns only if the robot answered 200, the
\* lock granted; an EvaAutoRenewError is raised after the robot answered, so
\* the lock may have been granted; the robot refuses while another user holds
\* the lock.
WaitAttempt ==
    /\ w_pc = "attempt"
    /\ w_nLock' = w_nLock + 1
    /\ \E out \in CallOutcomes, granted \in BOOLEAN :
          /\ granted => (out \in {"ok", "EvaAutoRenewError"} /\ w_owner # "other")
          /\ out = "ok" => granted
          /\ w_owner' = IF granted THEN "you" ELSE w_owner
          /\ w_last' = out
          /\ IF out = "ok"
             THEN w_pc' = "done" /\ w_result' = "return"
             ELSE IF Retried(out)
             THEN w_pc' = "check" /\ UNCHANGED w_result
             ELSE w_pc' = "done" /\ w_result' = out
    /\ UNCHANGED <<w_timeout, w_deadline, w_now, w_slept>>
    /\ UNCHANGED notWaitVars

\* Lines 318-320: after a failed attempt, eva_error if the deadline has passed.
WaitCheck ==
    /\ w_pc = "check"
    /\ IF w_timeout # Absent /\ DeadlinePassed(w_deadline, w_now)
       THEN w_pc' = "done" /\ w_result' = "EvaError"
       ELSE w_pc' = "sleep" /\ UNCHANGED w_result
    /\ UNCHANGED <<w_owner, w_timeout, w_deadline, w_now, w_nLock, w_slept,
                   w_last>>
    /\ UNCHANGED notWaitVars

\* Line 322: time.sleep(interval_sec).
WaitSleep ==
    /\ w_pc = "sleep"
    /\ w_now + IntervalSec <= MaxNow
    /\ w_now' = w_now + IntervalSec
    /\ w_slept' = w_slept + 1
    /\ w_pc' = "attempt"
    /\ UNCHANGED <<w_owner, w_timeout, w_deadline, w_nLock, w_last, w_result>>
    /\ UNCHANGED notWaitVars

\* Time passes while a request is in flight.
WaitTick ==
    /\ w_pc \in {"status", "attempt"}
    /\ w_now < MaxNow
    /\ w_now' = w_now + 1
    /\ UNCHANGED <<w_pc, w_owner, w_timeout, w_deadline, w_nLock, w_slept,
                   w_last, w_result>>
    /\ UNCHANGED notWaitVars

\* Another user takes the free lock, or releases the one they hold.
OtherUser ==
    /\ w_pc \notin {"idle", "done"}
    /\ w_owner # "you"
    /\ w_owner' = IF w_owner = "none" THEN "other" ELSE "none"
    /\ UNCHANGED <<w_pc, w_timeout, w_deadline, w_now, w_nLock, w_slept,
                   w_last, w_result>>
    /\ UNCHANGED notWaitVars

WaitInit ==
    /\ LockerStart
    /\ ClientStart(DefaultRenewPeriod)
    /\ AutomataStart(FallbackPeriod)
    /\ ErrorStart /\ TeachStart /\ HeadersStart /\ WebsocketStart
    /\ \E owner \in {"none", "other", "you"} : WaitStart(owner)

WaitNext ==
    \/ WaitCall
    \/ WaitStatus
    \/ WaitAttempt
    \/ WaitCheck
    \/ WaitSleep
    \/ WaitTick
    \/ OtherUser

WaitSpec == WaitInit /\ [][WaitNext]_allvars

\* ------------------------------------------------------------------ vocabulary of the claims
\* No scope is open and no scope operation is in progress.
Quiescent == mpc = "idle" /\ open = 0

\* The run so far is one nest: one outermost scope, every enter before any exit.
OneNest == started = 1 /\ maxDepth = nEnterOK

\* 1 while an expired wait has not yet made its lock_renew call.
Pending == IF tpc \in {"timedout", "renew"} THEN 1 ELSE 0

\* C1: with every lock_renew succeeding, under every interleaving of the caller
\* with the renewal thread, unlock is called exactly once per outermost scope,
\* only after the outermost exit has emptied period_stack and never while it is
\* non-empty, and lock is never called.
C1_UnlockOncePerOutermostScope ==
    failures = 0 =>
        /\ calls.lock = 0
        /\ calls.unlock <= started
        /\ Len(period_stack) > 0 => calls.unlock <= started - 1
        /\ Quiescent => calls.unlock = started

\* C2: a failed confirm-renew of an outermost enter raises EvaLockError, leaves
\* period_stack empty, starts no thread, has called lock_renew exactly once and
\* calls unlock never: no thread exists until an outermost enter succeeds.
FailedOuterEnterStep ==
    /\ Len(period_stack) = 0
    /\ nEnterTried' = nEnterTried + 1
    /\ failures' = failures + 1

C2_FailedOuterEnter ==
    /\ [][FailedOuterEnterStep =>
            /\ exc' = "enter_outer"
            /\ period_stack' = <<>>
            /\ tpc' = tpc /\ started' = started
            /\ open' = open
            /\ calls' = [calls EXCEPT !.lock_renew = @ + 1]]_vars
    /\ [](started = 0 => tpc = "none" /\ calls.unlock = 0 /\ period_stack = <<>>)

C2_Witness ==
    /\ exc = "enter_outer" /\ mpc = "idle"
    /\ started = 0 /\ period_stack = <<>>
    /\ calls.lock_renew = 1 /\ calls.unlock = 0

\* C3: a nested enter whose requested period equals the top of period_stack
\* raises EvaLockError, pushes nothing, calls lock_renew zero times and does not
\* wake the thread; once that error has unwound the enclosing scopes, unlock has
\* been called exactly once per outermost scope.
SamePeriodEnterStep ==
    /\ mpc = "enter_cs" /\ mpc' = "idle"
    /\ renew_period = Top(period_stack)

C3_SamePeriodEnter ==
    /\ [][SamePeriodEnterStep =>
            /\ exc' = "enter_same"
            /\ period_stack' = period_stack
            /\ calls' = calls
            /\ tpc' = tpc]_vars
    /\ [](exc = "enter_same" /\ Quiescent /\ failures = 0 => calls.unlock = started)

\* C4: when the body of an open scope raises and the exception has left every
\* open scope, period_stack is empty, the renewal thread has terminated and
\* unlock has been called once per outermost scope.
C4_BodyExceptionReleases ==
    (exc = "body" /\ Quiescent /\ failures = 0) =>
        /\ period_stack = <<>>
        /\ tpc \in {"done", "crashed"}
        /\ calls.unlock = started

\* C5: a failed confirm-renew of a nested enter raises EvaLockError without
\* pushing; once that error has unwound the enclosing scopes, unlock has been
\* called exactly once per outermost scope, and with one enclosing scope and no
\* timeout lock_renew was called once per successful enter plus the failed call.
FailedNestedEnterStep ==
    /\ mpc = "enter_cs" /\ mpc' = "idle"
    /\ failures' = failures + 1

C5_FailedNestedEnter ==
    /\ [][FailedNestedEnterStep =>
            /\ exc' = "enter_nested"
            /\ period_stack' = period_stack]_vars
    /\ [](exc = "enter_nested" /\ Quiescent /\ failures = 1 =>
            /\ calls.unlock = started
            /\ (timeouts = 0 /\ nExitNested = 0) => calls.lock_renew = nEnterOK + 1)

\* C6: an exit that leaves period_stack non-empty pops the top, wakes the thread
\* and makes exactly one lock_renew call; if that call fails the exit raises
\* EvaLockError with the stack popped, and once the error has unwound the outer
\* scopes unlock has been called exactly once per outermost scope.
NestedExitStep ==
    /\ mpc = "exit_cs" /\ mpc' = "idle"
    /\ Len(period_stack) > 1

C6_NestedExit ==
    /\ [][NestedExitStep =>
            /\ period_stack' = Pop(period_stack)
            /\ tpc = "waiting" => tpc' = "notified"
            /\ calls' = [calls EXCEPT !.lock_renew = @ + 1]
            /\ failures' # failures => exc' = "exit_renew"]_vars
    /\ [](exc = "exit_renew" /\ Quiescent /\ failures = 1 => calls.unlock = started)

\* C7 as stated: after N nested enters with distinct periods and N exits in
\* reverse order, lock_renew has been called N times plus once per background
\* timeout.
C7_Original ==
    (Quiescent /\ clean /\ OneNest) => calls.lock_renew = nEnterOK + timeouts

\* C7 as amended: after N nested enters, each with a period different from the
\* then-current top, and N exits in reverse order, lock_renew has been called N
\* times by the enters, N-1 times by the exits that left the stack non-empty, and
\* once per background timeout.
C7_RenewCount ==
    (Quiescent /\ clean /\ OneNest) =>
        /\ nExitNested = nEnterOK - 1
        /\ calls.lock_renew = nEnterOK + nExitNested + timeouts

C7_Witness ==
    /\ Quiescent /\ clean /\ OneNest
    /\ nEnterOK = 3 /\ timeouts = 1
    /\ calls.lock_renew = 6

\* C8: in a failure-free nest of N scopes lock_renew is called once per enter,
\* once per non-outermost exit and once per background timeout, 2N-1+T in all,
\* and unlock is called once.
C8_NestTotals ==
    (Quiescent /\ clean /\ OneNest) =>
        /\ calls.lock_renew = 2 * nEnterOK - 1 + timeouts
        /\ calls.unlock = 1

\* C9: every wait that expires triggers exactly one lock_renew call of the thread
\* and a wait ended by a wake triggers none; a single un-nested scope, free of
\* failures, during which one wait expires ends with 2 lock_renew calls and 1
\* unlock call.
C9_TimeoutRenewsOnce ==
    /\ nBgRenew + Pending = timeouts
    /\ (Quiescent /\ clean /\ started = 1 /\ nEnterTried = 1 /\ timeouts = 1) =>
            /\ calls.lock_renew = 2
            /\ calls.unlock = 1

C9_Witness ==
    /\ Quiescent /\ clean /\ started = 1 /\ nEnterTried = 1
    /\ timeouts = 1 /\ nBgRenew = 1
    /\ calls.lock_renew = 2 /\ calls.unlock = 1

\* C10: the thread waits with the period on top of period_stack: a wait in
\* progress has that period as its timeout and expires exactly when it has lasted
\* that long, and every push and pop ends the wait in progress, so the next wait
\* is measured with the new top from then on.
C10_WaitsWithTopPeriod ==
    /\ [](tpc = "waiting" =>
            /\ Len(period_stack) > 0
            /\ waitPeriod = Top(period_stack)
            /\ waited <= waitPeriod)
    /\ [](tpc = "timedout" => waited = waitPeriod)
    /\ [][(period_stack' # period_stack /\ tpc = "waiting") =>
            tpc' = "notified"]_vars

\* The outer period 1 fires again after an inner scope with a longer period has
\* been exited.
C10_Witness ==
    /\ tpc = "timedout"
    /\ nExitNested >= 1
    /\ period_stack = <<1>>
    /\ waitPeriod = 1 /\ waited = 1

\* A renewal thread has been started and has not ended.
ThreadLive == tpc \notin {"none", "done", "crashed"}

\* The step in which the outermost __exit__ returns.
OutermostExitReturns == mpc = "exit_join" /\ mpc' = "idle"

\* The step in which an __enter__ on an empty stack succeeds.
FreshOuterEnterStep == Len(period_stack) = 0 /\ nEnterOK' = nEnterOK + 1

\* C11: when an outermost exit returns, period_stack is empty, the thread has
\* ended and the requested period is the fallback again; a fresh outermost enter
\* then pushes the requested period alone, makes one confirm-renew and starts one
\* new thread; and with every lock_renew succeeding each further outermost scope
\* ends with one more unlock call.
C11_NoResidualState ==
    /\ [][OutermostExitReturns =>
            /\ period_stack' = <<>>
            /\ ~ThreadLive'
            /\ mutex' = "free"
            /\ renew_period' = fallback_renew_period]_vars
    /\ [][FreshOuterEnterStep =>
            /\ period_stack' = <<renew_period>>
            /\ calls' = [calls EXCEPT !.lock_renew = @ + 1]
            /\ started' = started + 1
            /\ tpc' = "start"]_vars
    /\ []((Quiescent /\ failures = 0 /\ started >= 2) => calls.unlock = started)

\* C12: whenever no enter or exit is in progress, a live renewal thread exists
\* if and only if period_stack is non-empty; and a new thread is started only
\* when no thread is live.
C12_ThreadIffStack ==
    /\ [](mpc = "idle" => (ThreadLive <=> Len(period_stack) > 0))
    /\ [][started' # started => ~ThreadLive]_vars

\* C13: between scope operations the length of period_stack is the number of
\* open scopes: an enter that returns pushes exactly one entry, an enter that
\* raises pushes none and opens no scope, and every exit pops exactly one entry,
\* also when its confirm-renew raises.
C13_StackDepthIsOpenScopes ==
    /\ [](mpc = "idle" => Len(period_stack) = open)
    /\ [][nEnterOK' = nEnterOK + 1 =>
            /\ period_stack' = Append(period_stack, renew_period)
            /\ open' = open + 1]_vars
    /\ [][(exc = "none" /\ exc' \in {"enter_outer", "enter_nested", "enter_same"}) =>
            /\ period_stack' = period_stack
            /\ open' = open]_vars
    /\ [][(mpc = "exit_cs" /\ mpc' # "exit_cs") =>
            period_stack' = Pop(period_stack)]_vars

\* A nested exit whose confirm-renew raised has popped its entry.
C13_Witness ==
    /\ mpc = "idle" /\ exc = "exit_renew"
    /\ nEnterOK = 2
    /\ open = 1 /\ Len(period_stack) = 1

\* The thread is at its stack read, its lock_renew or its stack test and unlock.
ThreadInCond == tpc \in {"locked", "renew", "check"}

\* The caller is in the `with self.__cond` block of a nested enter or of an exit.
MainInCond == mpc \in {"enter_cs", "exit_cs"}

\* C14: the thread runs its stack read, lock_renew and unlock steps, and the
\* caller runs the stack-mutating section of a nested enter or of an exit, only
\* while holding the lock of the condition, hence never at the same time.
C14_MutualExclusion ==
    /\ ThreadInCond => mutex = "thread"
    /\ MainInCond => mutex = "main"
    /\ ~(ThreadInCond /\ MainInCond)

\* A wait has expired while the caller is inside a nested enter: the thread has
\* to take the lock before its lock_renew.
C14_Witness ==
    /\ tpc = "timedout"
    /\ mpc = "enter_cs"
    /\ mutex = "main"

\* A step of set_renew_period that changes the requested period.
SetRenewPeriodStep ==
    /\ mpc = "idle" /\ mpc' = "idle"
    /\ renew_period' # renew_period

\* C15: set_renew_period changes the requested period only, leaving
\* period_stack, the thread, its wait and the mock untouched; and an enter that
\* returns has pushed the requested period as last set.
C15_SetRenewPeriodFrame ==
    /\ [][SetRenewPeriodStep =>
            UNCHANGED <<fallback_renew_period, period_stack, mutex, tpc,
                        waitPeriod, waited, open, exc, calls>>]_vars
    /\ [][nEnterOK' = nEnterOK + 1 => Top(period_stack') = renew_period]_vars

\* The requested period was changed during a wait measured with the period of
\* the open inner scope.
C15_Witness ==
    /\ mpc = "idle"
    /\ period_stack = <<1, 2>> /\ renew_period = 1
    /\ tpc = "waiting" /\ waitPeriod = 2 /\ waited = 1

Done == cpc = "idle" /\ op = "api"

\* The server answered POST auth with a status other than 200.
CreateRefused == cs \notin {0, 200}

\* The renewal attempted by the call renewed or re-created the session.
RenewalSucceeded == rr = 204 \/ (rr = 401 /\ cs = 200)

Returned(status) ==
    [kind |-> "return", status |-> status, error |-> "none", token |-> None]

Raised(error) ==
    [kind |-> "raise", status |-> 0, error |-> error, token |-> None]

\* C17: when the first attempt receives 401 and the server does not refuse the
\* new session, the call has called auth_create_session exactly once, has sent
\* the request exactly once more, with the new token, has made no renewal and
\* returns the retry's response whatever its status; when the first attempt does
\* not receive 401 there is no retry, and auth_create_session is called only by
\* a renewal answered with 401.
C17_CreateAndRetryOnce ==
    /\ (Done /\ r = 401 /\ ~CreateRefused) =>
            /\ r2 # 0
            /\ result = Returned(r2)
            /\ nPrimary = 2
            /\ nCreate = 1
            /\ nRenew = 0
            /\ session_token # None
            /\ retryToken = session_token
    /\ (Done /\ r # 401) =>
            /\ nPrimary = 1
            /\ r2 = 0
            /\ nCreate > 0 => rr = 401

\* C18 as stated: the call returns the response of the first attempt, or of the
\* retry, whatever the outcome of the renewal.
C18_Original ==
    /\ (Done /\ r # 401) => result = Returned(r)
    /\ (Done /\ r = 401 /\ r2 # 0) => result = Returned(r2)

\* C18 as amended: whenever the call returns, it returns the response of the
\* first attempt, or of the retry after a 401, unchanged; a renewal that
\* succeeds and a renewal not attempted leave that return value alone; a renewal
\* that fails makes the call raise instead of returning the response.
C18_ReturnsPrimaryOrRaises ==
    Done =>
        /\ result.kind = "return" => result = Returned(IF r # 401 THEN r ELSE r2)
        /\ (r # 401 /\ nRenew = 0) => result = Returned(r)
        /\ (nRenew = 1 /\ RenewalSucceeded) => result = Returned(r)
        /\ (nRenew = 1 /\ ~RenewalSucceeded) => result.kind = "raise"

\* A first response 200 lost to a renewal answered with 500.
C18_Witness ==
    /\ Done
    /\ r = 200 /\ rr = 500
    /\ result = Raised("EvaAutoRenewError")

\* C19: a renewal attempted by the call that neither renews nor re-creates the
\* session ends the call with EvaAutoRenewError and with no other error; a call
\* that attempts no renewal never ends with EvaAutoRenewError.
C19_RenewalFailureIsAutoRenewError ==
    /\ (Done /\ nRenew = 1 /\ ~RenewalSucceeded) => result = Raised("EvaAutoRenewError")
    /\ (Done /\ nRenew = 0) => result.error # "EvaAutoRenewError"

\* The renewal window of the claim, for an elapsed time e.
InWindow(e) == http_renew_period < e /\ e < HardExpiry

\* C20 as stated: once the call has its response, from the first attempt or from
\* the retry, a renew request is sent exactly when the time elapsed since the
\* last create or renew is strictly between renew_period and the hard expiry.
C20_Original ==
    (Done /\ (r # 401 \/ r2 # 0)) => (nRenew = 1 <=> InWindow(seenElapsed))

\* C20 as amended: when the response comes from the first attempt, a renew
\* request is sent exactly when the elapsed time is strictly between
\* renew_period and the hard expiry, and at most one is sent; when the first
\* attempt received 401 no renew request is sent, whatever the elapsed time at
\* the retry.
C20_RenewWindow ==
    /\ [][(cpc = "a_check" /\ cpc' # "a_check") =>
            (cpc' = "r_req" <=> InWindow(elapsed))]_cvars
    /\ [][nRenew' = nRenew + 1 => (cpc = "r_req" /\ nRenew = 0)]_cvars
    /\ [](Done => (nRenew = 1 <=> (r # 401 /\ InWindow(seenElapsed))))

\* A retry whose response arrives inside the renewal window, with no renewal.
C20_Witness ==
    /\ Done
    /\ r = 401 /\ r2 = 200
    /\ InWindow(seenElapsed)
    /\ nRenew = 0
    /\ result = Returned(200)

\* The step in which a request sent at position pc is answered.
ResponseStep(pc) == cpc = pc /\ nRequests' = nRequests + 1

\* The call of a public method that is ending raises an Eva error.
RaisesEvaError == result'.kind = "raise" /\ IsEvaError(result'.error)

C23_RenewRecovers ==
    /\ [][(ResponseStep("r_req") /\ rr' = 401) =>
            /\ session_token' = None
            /\ nCreate' = nCreate + 1
            /\ cpc' = "c_versions"]_cvars
    /\ [][(ResponseStep("c_req") /\ rr = 401 /\ cs' = 200) =>
            /\ cpc' = "idle"
            /\ result' = Returned(r)
            /\ nCreate = 1 /\ nCreate' = 1
            /\ session_token' = tokens' /\ tokens' = tokens + 1
            /\ elapsed' = 0]_cvars

\* A session replaced by a renewal answered 401.
C23_Witness ==
    /\ cpc = "idle" /\ op = "renew"
    /\ rr = 401 /\ cs = 200
    /\ session_token = 2
    /\ result.kind = "return"

C25_NewSessionAfterInvalidate ==
    (/\ Done
     /\ prev = [op |-> "invalidate", kind |-> "return"]
     /\ r = 401
     /\ ~CreateRefused
     /\ r2 \in {0, 200}) =>
        /\ result = Returned(200)
        /\ session_token # None
        /\ session_token # gone

\* C26: a client exists exactly when its renew_period is strictly between 0 and
\* the hard expiry, the constructor raising ValueError otherwise; only an
\* existing client makes calls.
C26_ValidRenewPeriod ==
    /\ built <=> (0 < http_renew_period /\ http_renew_period < HardExpiry)
    /\ (nCalls > 0 \/ cpc # "idle" \/ elapsed > 0) => built

\* The constructor has raised ValueError for a renew_period of 30 minutes.
C26_Witness ==
    /\ ~built
    /\ http_renew_period = HardExpiry
    /\ nCalls = 0

\* C27: a call of api_call_with_auth, and of every session method, sends the
\* caller's request at most twice and the renew request at most once, calls
\* auth_create_session at most once, sends at most 4 requests in all, never has
\* api_call_with_auth below another method, and ends.
C27_BoundedRequests ==
    /\ [](/\ nPrimary <= 2
          /\ nRenew <= 1
          /\ nCreate <= 1
          /\ nRequests <= 4
          /\ Len(frames) <= 3
          /\ \A i \in 2..Len(frames) : frames[i] # "api")
    /\ (cpc # "idle") ~> (cpc = "idle")

\* A call that sent the most requests: first attempt, renewal answered 401,
\* versions, POST auth.
C27_Witness ==
    /\ Done
    /\ nRequests = 4
    /\ nPrimary = 1 /\ nRenew = 1 /\ nCreate = 1

\* The auth_create_session that auth_renew_session fell back to after a 401 ends
\* without a session: its version check or its POST auth fails.
FallbackCreateFails ==
    /\ rr = 401
    /\ \/ ResponseStep("c_versions") /\ vs' = 200
       \/ ResponseStep("c_req") /\ cs' # 200

\* api_call_with_auth is called while there is no session.
CallWithoutSession ==
    /\ cpc = "idle"
    /\ session_token = None
    /\ nCalls' = nCalls + 1
    /\ op' = "api"

\* C38: when auth_renew_session is answered 401 and its fallback
\* auth_create_session fails, the call ends with an exception, session_token
\* stays None, as the 401 branch left it, and the time of the last renewal is
\* not touched; an api_call_with_auth made in that state sends its request
\* without a session, and a 401 answer takes it to auth_create_session and then
\* the retry.
C38_FailedFallbackLeavesNoSession ==
    /\ []((rr = 401 /\ cpc \in {"c_versions", "c_req"}) => session_token = None)
    /\ [][FallbackCreateFails =>
            /\ cpc' = "idle"
            /\ result'.kind = "raise"
            /\ session_token' = None
            /\ result'.error \in {"TypeError", "EvaAutoRenewError",
                                  ErrorFor(cs')}
            /\ elapsed' = elapsed
            /\ tokens' = tokens]_cvars
    /\ [][CallWithoutSession =>
            /\ r' = 401 <=> cpc' = "c_versions"
            /\ r' = 401 => (nCreate' = 1 /\ frames' = <<"api", "create">>)
            /\ session_token' = None]_cvars

\* A session existed; its renewal was answered 401 and the POST auth of the
\* fallback was refused.
C38_Witness ==
    /\ cpc = "idle" /\ op = "renew"
    /\ rr = 401 /\ cs = 401
    /\ result = Raised("EvaValidationError")
    /\ tokens = 1
    /\ session_token = None

\* ------------------------------------------------------------------ lock discipline of evasdk's locker
\* The step of line 79 in which the thread reads the top of the stack, or finds
\* the stack empty.
TopReadStep == tpc = "locked" /\ tpc' # "locked"

\* The step of line 83 in which the thread reads the length of the stack.
LengthReadStep == tpc = "check" /\ tpc' # "check"

\* A notify that takes the thread out of the waiter list.
NotifyStep == tpc = "waiting" /\ tpc' = "notified"

\* C29 as stated: every mutation of period_stack, every mutation of the
\* requested period and every notify is made by a caller holding the lock of
\* the condition, and the thread reads the stack only while holding it.
C29_Original ==
    /\ [][period_stack' # period_stack => mutex = "main"]_vars
    /\ [][renew_period' # renew_period => mutex = "main"]_vars
    /\ [][NotifyStep => mutex = "main"]_vars
    /\ [][(TopReadStep \/ LengthReadStep) => mutex = "thread"]_vars

\* C29: every push onto a non-empty stack, every pop and every notify is made
\* by a caller holding the lock of the condition, and the thread reads
\* period_stack only while holding it; the push onto the empty stack is made
\* without the lock, before the thread of that scope takes its first step and
\* with no other thread of the locker live, and the requested period is changed
\* without the lock, by set_renew_period and by the outermost exit after its
\* join, and is never read by the thread.
C29_LockDiscipline ==
    /\ [][(period_stack' # period_stack /\ period_stack # <<>>) =>
            mutex = "main"]_vars
    /\ [][(period_stack' # period_stack /\ period_stack = <<>>) =>
            /\ mutex = "free"
            /\ ~ThreadLive
            /\ tpc' = "start"]_vars
    /\ [][NotifyStep => mutex = "main"]_vars
    /\ [][(TopReadStep \/ LengthReadStep) => mutex = "thread"]_vars
    /\ [][renew_period' # renew_period =>
            /\ mpc = "idle" \/ OutermostExitReturns
            /\ mutex # "main"
            /\ UNCHANGED <<period_stack, tpc, waitPeriod, waited>>]_vars

\* The requested period is changed without the lock while the thread holds it,
\* about to read the top of the stack.
C29_Witness ==
    /\ tpc = "locked" /\ mutex = "thread"
    /\ mpc = "idle"
    /\ Len(period_stack) = 2
    /\ renew_period # Top(period_stack)

\* The only lock_renew call that raised was made by the renewal thread of the
\* only outermost scope: every enter returned and no exit left scopes open, so
\* no confirm-renew of the caller raised.
BackgroundRenewFailed ==
    /\ failures > 0
    /\ started = 1
    /\ nEnterOK = nEnterTried
    /\ nExitNested = 0

\* C30: after a lock_renew of the renewal thread has raised and the outermost
\* scope has exited, unlock has been called, or else the exit has raised an
\* EvaLockError that reports the lost lease.
C30_BackgroundFailureHandled ==
    (Quiescent /\ BackgroundRenewFailed) =>
        \/ calls.unlock = 1
        \/ exc \notin {"none", "body"}

\* ------------------------------------------------------------------ termination of the outermost exit
\* C31: in either locker, once the outermost exit has left its `with
\* self.__cond` block, having emptied the stack (or cleared the flag) and
\* notified, the thread stops and join returns, under every fair interleaving
\* of the two threads and whether the calls on the Eva object return or raise.
C31_OutermostExitTerminates ==
    /\ (mpc = "exit_join") ~> (mpc = "idle" /\ ~ThreadLive)
    /\ (a_mpc = "exit_join") ~> (a_mpc = "idle" /\ a_tpc \in {"done", "crashed"})

\* The notify of automata's exit came before the thread began to wait: the
\* thread waits with the flag clear, and only the timeout can end the wait.
C31_Witness ==
    /\ a_mpc = "exit_join"
    /\ a_tpc = "waiting"
    /\ ~locked

\* ------------------------------------------------------------------ renewals of the thread and the last pop
\* The lock_renew call of the renewal thread.
BackgroundRenewStep == nBgRenew' = nBgRenew + 1

\* C34 as stated: the renewal thread never calls lock_renew while period_stack
\* is empty.
C34_Original == [][BackgroundRenewStep => period_stack # <<>>]_vars

\* C34: the renewal thread calls lock_renew exactly after a wait that timed
\* out, whatever the stack has become by the time it holds the lock again. A
\* wait that times out while the outermost exit pops the last period therefore
\* leads to one lock_renew made with period_stack empty; that call is made
\* while the exit is joining, it is the last lock_renew of the thread, and if
\* it returns the next call of the thread is the single unlock.
C34_RenewAfterLastPop ==
    /\ [][(tpc # "renew" /\ tpc' = "renew") <=>
            (tpc = "timedout" /\ tpc' # "timedout")]_vars
    /\ [][BackgroundRenewStep => (tpc = "renew" /\ mutex = "thread")]_vars
    /\ [][(BackgroundRenewStep /\ period_stack = <<>>) =>
            /\ mpc = "exit_join"
            /\ tpc' \in {"check", "crashed"}]_vars
    /\ [][(tpc = "check" /\ period_stack = <<>> /\ tpc' # "check") =>
            /\ tpc' = "done"
            /\ calls' = Called("unlock")]_vars
    /\ [][calls'.unlock # calls.unlock => (tpc' = "done" /\ period_stack = <<>>)]_vars

\* The wait timed out, the outermost exit popped the last period before the
\* thread had the lock again, and the thread is about to call lock_renew.
C34_Witness ==
    /\ tpc = "renew"
    /\ period_stack = <<>>
    /\ mpc = "exit_join"

\* ------------------------------------------------------------------ shape of period_stack
\* C36: any two adjacent entries of period_stack are different periods, in
\* every reachable state, inside the scope operations included.
C36_AdjacentPeriodsDiffer ==
    \A i \in 1..(Len(period_stack) - 1) : period_stack[i] # period_stack[i + 1]

\* Equal entries that are not adjacent.
C36_Witness ==
    /\ period_stack = <<2, 1, 2>>
    /\ mpc = "idle" /\ exc = "none"

\* ------------------------------------------------------------------ claims about automata.EvaWithLocker
\* No scope is open and no scope operation is in progress.
AutomataQuiescent == a_mpc = "idle" /\ a_open = 0

\* An __enter__ made while the flag is set.
DoubleEnterStep == locked /\ a_nEnter' = a_nEnter + 1

C33_ErrorClassByStatus ==
    e_called =>
        /\ e_raised # "none"
        /\ IsEvaError(e_raised)
        /\ e_raised = (IF e_status = None THEN "EvaError"
                       ELSE ErrorForDocumented(e_status))

\* ------------------------------------------------------------------ claims about Eva's teach-mode calls
\* The step in which the __enter__ of a teach-mode control call returns or raises.
TeachEnterStep == teach = "set" /\ mpc = "enter_cs" /\ mpc' = "idle"

\* C35: inside an open lock scope, the nested scope of a teach-mode control call
\* is never refused as an unnecessary refresh: it is entered, or its
\* confirm-renew raises.
C35_TeachCallAccepted ==
    [][TeachEnterStep => exc' # "enter_same"]_<<vars, evars>>

\* ------------------------------------------------------------------ claims about the headers
\* C37: a request sent through api_call_no_auth carries no Authorization
\* header, whatever requests were sent before it by this or another client.
C37_NoAuthCarriesNoAuthorization ==
    (h_sent.client # 0 /\ ~h_sent.add_auth) => h_sent.authorization = Absent

\* ------------------------------------------------------------------ claims about the Websocket
\* C39: Websocket.__enter__ raises EvaWebsocketError only when on_open did not
\* fire within the timeout: if on_open fired before the timeout had passed
\* since __enter__ was called, at whatever point of the entering thread's
\* progress, __enter__ returns.
C39_EnterReturnsIfOpened ==
    s_mpc = "raised" => (s_openAt = Absent \/ s_openAt >= WsTimeout)

\* ------------------------------------------------------------------ claims about lock_wait_for
\* The step in which lock_status answers, and the one in which lock_lock ends.
StatusStep == w_pc = "status" /\ w_pc' # "status"
AttemptStep == w_nLock' = w_nLock + 1

\* C32: lock_wait_for returns without any lock_lock when lock_status reports
\* owner 'you'; otherwise it calls lock_lock, sleeping interval_sec between
\* attempts, until one returns; it goes on after an EvaError only, any other
\* exception ending the call at once; with a timeout it raises EvaError after
\* a failed attempt once the deadline is past, and without one it never does;
\* and it returns only when the caller owns the lock.
C32_WaitForLock ==
    /\ [][StatusStep =>
            /\ (w_last' = "ok" /\ w_owner = "you") =>
                  (w_pc' = "done" /\ w_result' = "return" /\ w_nLock' = 0)
            /\ (w_last' = "ok" /\ w_owner # "you") =>
                  (w_pc' = "attempt" /\ w_result' = "none")
            /\ w_last' # "ok" => (w_pc' = "done" /\ w_result' = w_last')]_wvars
    /\ [][AttemptStep =>
            /\ w_pc = "attempt"
            /\ w_last' = "ok" => (w_pc' = "done" /\ w_result' = "return")
            /\ IsEvaError(w_last') => (w_pc' = "check" /\ w_result' = "none")
            /\ (w_last' # "ok" /\ ~IsEvaError(w_last')) =>
                  (w_pc' = "done" /\ w_result' = w_last')]_wvars
    /\ [][(w_pc = "check" /\ w_pc' # "check") =>
            IF w_timeout # Absent /\ w_now > w_deadline
            THEN w_pc' = "done" /\ w_result' = "EvaError"
            ELSE w_pc' = "sleep" /\ w_result' = "none"]_wvars
    /\ [][w_slept' # w_slept =>
            /\ w_pc = "sleep" /\ w_pc' = "attempt"
            /\ w_slept' = w_slept + 1
            /\ w_now' = w_now + IntervalSec]_wvars
    /\ [](w_pc = "attempt" => w_slept = w_nLock)
    /\ [](w_result = "return" => (w_owner = "you" /\ w_last = "ok"))

\* lock_wait_for raised EvaError at the deadline after two refused attempts
\* with a sleep between them.
C32_Witness ==
    /\ w_pc = "done"
    /\ w_result = "EvaError"
    /\ w_timeout = 1
    /\ w_nLock = 2
    /\ w_slept = 1
    /\ w_owner = "other"

====
